---- MODULE Spec2Model ----
(***************************************************************************)
(* Recommendation engine of the book-catalog backend                       *)
(* (backend/app/services/recommendation_service.py) together with the      *)
(* tables it reads (reviews, user_interactions, books) and the web         *)
(* handlers that write them or call the engine.                            *)
(*                                                                         *)
(* Numbers.  Ratings are the integers 1..5 and interaction weights are     *)
(* drawn from whole numbers, so every interaction-matrix score is an       *)
(* integer and the sums and products of the Pearson computation are exact  *)
(* in the program's binary floating point as well.  Quantities that are    *)
(* genuinely fractional (similarities, predicted ratings) are kept in      *)
(* fixed point with Scale units per 1.0.                                   *)
(***************************************************************************)
EXTENDS Integers, Sequences, FiniteSets, TLC

VARIABLES
    reviews,            \* table reviews: (user, book) -> rating, NoRating = no row
    user_interactions,  \* table user_interactions: (user, book) -> weight -> number of rows
    catalog,            \* table books: the book ids present
    docs,               \* table books (+ book_tags): id -> the terms of its text
    stats,              \* table books: id -> [avg, reviews, views]
    favorites,          \* table favorites: the rows [user_id, book_id, list_name]
    book_tags,          \* table book_tags: id -> the tags of the book
    user_item_matrix,   \* RecommendationService.user_item_matrix
    user_ids,           \* RecommendationService.user_ids
    book_ids,           \* RecommendationService.book_ids
    initialized,        \* RecommendationService.initialized
    books,              \* RecommendationService.books (the ids, in row order)
    book_vectors,       \* RecommendationService.book_vectors: id -> row number
    tfidf_matrix,       \* RecommendationService.tfidf_matrix (the fitted documents)
    out,                \* the operation that ran last, with what it returned
    pending             \* the calls suspended at an await, with the rows they wait for

vars == <<reviews, user_interactions, catalog, docs, stats, favorites, book_tags,
          user_item_matrix, user_ids, book_ids,
          initialized, books, book_vectors, tfidf_matrix, out, pending>>

dbVars == <<reviews, user_interactions, catalog, docs, stats, favorites, book_tags>>
cfVars == <<user_item_matrix, user_ids, book_ids>>
tfVars == <<initialized, books, book_vectors, tfidf_matrix>>

----------------------------------------------------------------------------
(* Universe and bounds *)

Users == {"u1", "u2", "u3"}
Books == {"W", "X", "Y", "Z"}
Pairs == Users \X Books

\* bounds of the event-driven specification of the matrix builder
MaxReviews == 2
MaxInteractions == 2

\* bound of the deletions of books
MaxDeleted == 3

\* bound of the views of books
MaxViews == 2

NoRating == 0
NeutralBase == 3
RatingValues == {4, 5}
Weights == {0, 1}

EmptyMap == [x \in {} |-> 0]

\* tfidf_matrix = None.  A fitted matrix has one row per book and is never
\* fitted on an empty list (line 48), so the empty sequence stands for None.
NoMatrix == <<>>

\* A book nobody has rated or viewed (models.py: the three columns default to 0).
NoStats == [avg |-> 0, reviews |-> 0, views |-> 0]

\* RecommendationService.__init__
NewService ==
    /\ user_item_matrix = EmptyMap
    /\ user_ids = {}
    /\ book_ids = {}
    /\ initialized = FALSE
    /\ books = <<>>
    /\ book_vectors = EmptyMap
    /\ tfidf_matrix = NoMatrix
    /\ pending = {}

Put(m, k, v) == [x \in (DOMAIN m) \cup {k} |-> IF x = k THEN v ELSE m[x]]

RECURSIVE SumOver(_, _)
SumOver(S, f) ==
    IF S = {} THEN 0
    ELSE LET x == CHOOSE y \in S : TRUE
         IN  f[x] + SumOver(S \ {x}, f)

RECURSIVE AsSeq(_)
AsSeq(S) ==
    IF S = {} THEN <<>>
    ELSE LET x == CHOOSE y \in S : TRUE
         IN  <<x>> \o AsSeq(S \ {x})

----------------------------------------------------------------------------
(* The two event tables *)

NoInteractions == [w \in Weights |-> 0]

InteractionCount(p) == SumOver(Weights, user_interactions[p])
SumWeight(p) == SumOver(Weights, [w \in Weights |-> w * user_interactions[p][w]])

HasReview(p) == reviews[p] # NoRating
HasInteraction(p) == InteractionCount(p) > 0
HasEvent(p) == HasReview(p) \/ HasInteraction(p)

ReviewCount == Cardinality({p \in Pairs : HasReview(p)})
TotalInteractions == SumOver(Pairs, [p \in Pairs |-> InteractionCount(p)])


----------------------------------------------------------------------------
(* build_user_item_matrix *)

\* The first branch without the base: SUM(interaction_weight) alone.
InteractionRowsWithoutBase ==
    { [user_id |-> p[1], book_id |-> p[2], score |-> SumWeight(p)]
      : p \in {q \in Pairs : HasInteraction(q)} }

\* First branch of the UNION: one row per (user, book) group of
\* user_interactions, COALESCE(rating, 3) + SUM(interaction_weight).
InteractionRows ==
    { [user_id |-> p[1], book_id |-> p[2],
       score |-> (IF HasReview(p) THEN reviews[p] ELSE NeutralBase) + SumWeight(p)]
      : p \in {q \in Pairs : HasInteraction(q)} }

\* Second branch of the UNION: one row per review, the rating as the score.
ReviewRows ==
    { [user_id |-> p[1], book_id |-> p[2], score |-> reviews[p]]
      : p \in {q \in Pairs : HasReview(q)} }

\* UNION (not UNION ALL): equal rows are merged.
QueryResult == InteractionRows \cup ReviewRows

SamePair(r1, r2) == r1.user_id = r2.user_id /\ r1.book_id = r2.book_id

\* The query has no ORDER BY: fetch_all may return the rows in any order.
\* The loop below depends on the order only through which of two rows of
\* the same (user, book) comes last, so one order per such choice is drawn.
Doubled(S) == {r \in S : \E r2 \in S : r2 # r /\ SamePair(r, r2)}

LateChoices(S) ==
    { L \in SUBSET Doubled(S) :
        \A r \in Doubled(S) :
            Cardinality({r2 \in L : SamePair(r, r2)}) = 1 }

RowOrders(S) == { AsSeq(S \ L) \o AsSeq(L) : L \in LateChoices(S) }

\* Lines 136-144: the loop over the rows, starting from matrix m.
RECURSIVE FillMatrix(_, _)
FillMatrix(rows, m) ==
    IF rows = <<>> THEN m
    ELSE LET row == Head(rows)
             m1  == IF row.user_id \in DOMAIN m THEN m
                    ELSE Put(m, row.user_id, EmptyMap)
             m2  == Put(m1, row.user_id,
                        Put(m1[row.user_id], row.book_id, row.score))
         IN  FillMatrix(Tail(rows), m2)

\* The same loop when line 132 (self.user_item_matrix.clear()) is left out.
BuildWithoutClear(rows, old) == FillMatrix(rows, old)

\* Lines 132-144: clear, then fill.
BuiltMatrix(rows, old) == FillMatrix(rows, EmptyMap)

RowUsers(rows) == {rows[i].user_id : i \in DOMAIN rows}
RowBooks(rows) == {rows[i].book_id : i \in DOMAIN rows}

Cells(m) == {p \in Pairs : p[1] \in DOMAIN m /\ p[2] \in DOMAIN m[p[1]]}

\* The state of the service after build_user_item_matrix read `rows`.
BuildFrom(rows) ==
    /\ user_item_matrix' = BuiltMatrix(rows, user_item_matrix)
    /\ user_ids' = RowUsers(rows)
    /\ book_ids' = RowBooks(rows)

BuildUserItemMatrix ==
    \E rows \in RowOrders(QueryResult) :
        /\ BuildFrom(rows)
        /\ out' = [op |-> "build",
                   dropped |-> Cells(user_item_matrix) \ Cells(user_item_matrix')]
        /\ UNCHANGED <<pending, dbVars, tfVars>>

----------------------------------------------------------------------------
(* Handlers that write the event tables *)

\* routers/reviews.py create_review: 409 when the user already reviewed the book.
CreateReview(p, r) ==
    /\ ~HasReview(p)
    /\ ReviewCount < MaxReviews
    /\ reviews' = [reviews EXCEPT ![p] = r]
    /\ out' = [op |-> "write"]
    /\ UNCHANGED <<pending, user_interactions, catalog, docs, stats, favorites, book_tags,
                 cfVars, tfVars>>

\* routers/reviews.py delete_review
DeleteReview(p) ==
    /\ HasReview(p)
    /\ reviews' = [reviews EXCEPT ![p] = NoRating]
    /\ out' = [op |-> "write"]
    /\ UNCHANGED <<pending, user_interactions, catalog, docs, stats, favorites, book_tags,
                 cfVars, tfVars>>

\* routers/recommendations.py record_interaction
RecordInteraction(p, w) ==
    /\ TotalInteractions < MaxInteractions
    /\ user_interactions' = [user_interactions EXCEPT ![p][w] = @ + 1]
    /\ out' = [op |-> "write"]
    /\ UNCHANGED <<pending, reviews, catalog, docs, stats, favorites, book_tags,
                 cfVars, tfVars>>

----------------------------------------------------------------------------
(* Specification of the matrix builder under table writes *)

MatrixPairs == {<<"u1","W">>, <<"u1","X">>, <<"u2","W">>}

Init ==
    /\ reviews = [p \in Pairs |-> NoRating]
    /\ user_interactions = [p \in Pairs |-> NoInteractions]
    /\ catalog = Books
    /\ docs = [b \in Books |-> {}]
    /\ favorites = {}
    /\ book_tags = [b \in Books |-> {}]
    /\ stats = [b \in Books |-> NoStats]
    /\ NewService
    /\ out = [op |-> "init"]

NextMatrix ==
    \/ \E p \in MatrixPairs, r \in RatingValues : CreateReview(p, r)
    \/ \E p \in MatrixPairs : DeleteReview(p)
    \/ \E p \in MatrixPairs, w \in Weights : RecordInteraction(p, w)
    \/ BuildUserItemMatrix

SpecMatrix == Init /\ [][NextMatrix]_vars

----------------------------------------------------------------------------
(* get_knn_recommendations *)

\* Fixed-point resolution of similarities and predicted ratings.
Scale == 100

RECURSIVE ISqrtBetween(_, _, _)
ISqrtBetween(n, lo, hi) ==
    IF lo >= hi THEN lo
    ELSE LET mid == (lo + hi + 1) \div 2
         IN  IF mid * mid <= n THEN ISqrtBetween(n, mid, hi)
             ELSE ISqrtBetween(n, lo, mid - 1)

\* floor(sqrt(n)); the search starts below the largest root of a machine integer.
ISqrt(n) == ISqrtBetween(n, 0, IF n < 46340 THEN n ELSE 46340)

\* All orders in which a set can be iterated.
RECURSIVE Orders(_)
Orders(S) ==
    IF S = {} THEN {<<>>}
    ELSE UNION { { <<x>> \o t : t \in Orders(S \ {x}) } : x \in S }

\* Lines 175-181: the items both users have a score for.
CommonBooks(target, other) == (DOMAIN target) \cap (DOMAIN other)

\* Lines 187-198: the sums of the Pearson correlation over the common items.
PearsonNumerator(target, other) ==
    LET C  == CommonBooks(target, other)
        n  == Cardinality(C)
    IN  n * SumOver(C, [b \in C |-> target[b] * other[b]])
          - SumOver(C, [b \in C |-> target[b]]) * SumOver(C, [b \in C |-> other[b]])

Variance(ratings, C) ==
    Cardinality(C) * SumOver(C, [b \in C |-> ratings[b] * ratings[b]])
      - SumOver(C, [b \in C |-> ratings[b]]) * SumOver(C, [b \in C |-> ratings[b]])

\* The square of the denominator of line 195: denominator > 0 (line 200)
\* iff this product is > 0.
DenominatorSquared(target, other) ==
    Variance(target, CommonBooks(target, other))
      * Variance(other, CommonBooks(target, other))

\* Line 201, numerator / denominator for numerator > 0, in units of 1/Scale:
\* floor(Scale * numerator / sqrt(DenominatorSquared)).
Similarity(target, other) ==
    ISqrt((PearsonNumerator(target, other) * Scale
             * PearsonNumerator(target, other) * Scale)
          \div DenominatorSquared(target, other))

\* Lines 170-203 with the test of line 167 left out.
QualifiesWithoutSelfTest(m, user, other) ==
    /\ other \in DOMAIN m
    /\ DOMAIN m[other] # {}
    /\ Cardinality(CommonBooks(m[user], m[other])) >= 2
    /\ DenominatorSquared(m[user], m[other]) > 0
    /\ PearsonNumerator(m[user], m[other]) > 0

\* Lines 167-203: whether other_user_id is appended to `similarities`.
Qualifies(m, user, other) ==
    /\ other # user
    /\ other \in DOMAIN m
    /\ DOMAIN m[other] # {}
    /\ Cardinality(CommonBooks(m[user], m[other])) >= 2
    /\ DenominatorSquared(m[user], m[other]) > 0
    /\ PearsonNumerator(m[user], m[other]) > 0

\* Lines 163-203: the list `similarities`, filled in the order `uorder` in
\* which self.user_ids is iterated.
RECURSIVE Similarities(_, _, _)
Similarities(m, user, uorder) ==
    IF uorder = <<>> THEN <<>>
    ELSE LET other == Head(uorder)
             rest  == Similarities(m, user, Tail(uorder))
         IN  IF Qualifies(m, user, other)
             THEN <<[userId |-> other,
                     similarity |-> Similarity(m[user], m[other])]>> \o rest
             ELSE rest

\* list.sort(key=lambda x: x[key], reverse=True): a stable sort, largest
\* key first, equal keys in their original order.
RECURSIVE InsertDesc(_, _, _)
InsertDesc(sorted, x, key) ==
    IF sorted = <<>> THEN <<x>>
    ELSE IF Head(sorted)[key] >= x[key]
         THEN <<Head(sorted)>> \o InsertDesc(Tail(sorted), x, key)
         ELSE <<x>> \o sorted

RECURSIVE SortDescFrom(_, _, _)
SortDescFrom(sorted, xs, key) ==
    IF xs = <<>> THEN sorted
    ELSE SortDescFrom(InsertDesc(sorted, Head(xs), key), Tail(xs), key)

SortDesc(xs, key) == SortDescFrom(<<>>, xs, key)

\* xs[:n] of Python: for n < 0 the list without its last -n items.  For
\* n >= 0 also the rows LIMIT n keeps.
Truncate(xs, n) ==
    SubSeq(xs, 1, IF n < 0 THEN (IF Len(xs) + n < 0 THEN 0 ELSE Len(xs) + n)
                  ELSE IF n < Len(xs) THEN n ELSE Len(xs))

\* The neighbours when line 206 is left out: the first k in iteration order.
UnsortedNeighbors(m, user, uorder, k) ==
    Truncate(Similarities(m, user, uorder), k)

\* Lines 205-207: sort by similarity, keep the top k.
Neighbors(m, user, uorder, k) ==
    Truncate(SortDesc(Similarities(m, user, uorder), "similarity"), k)

\* Lines 219-223: one (book_id, rating) item of a neighbour's ratings added
\* to `predictions`, a dict kept here in insertion order.
RECURSIVE AddPrediction(_, _, _, _)
AddPrediction(preds, book, rating, sim) ==
    IF preds = <<>>
    THEN <<[bookId |-> book, weighted_sum |-> rating * sim, similarity_sum |-> sim]>>
    ELSE IF Head(preds).bookId = book
         THEN <<[bookId |-> book,
                 weighted_sum |-> Head(preds).weighted_sum + rating * sim,
                 similarity_sum |-> Head(preds).similarity_sum + sim]>> \o Tail(preds)
         ELSE <<Head(preds)>> \o AddPrediction(Tail(preds), book, rating, sim)

\* Lines 218-223: the inner loop over one neighbour's ratings, whose items
\* come in the order `border`.
RECURSIVE AddNeighbor(_, _, _, _, _)
AddNeighbor(preds, ratings, sim, target_books, border) ==
    IF border = <<>> THEN preds
    ELSE LET b    == Head(border)
             next == IF b \in DOMAIN ratings /\ b \notin target_books
                     THEN AddPrediction(preds, b, ratings[b], sim)
                     ELSE preds
         IN  AddNeighbor(next, ratings, sim, target_books, Tail(border))

\* Lines 216-223: the outer loop over the neighbours.
RECURSIVE Predictions(_, _, _, _, _)
Predictions(preds, m, neighbors, target_books, border) ==
    IF neighbors = <<>> THEN preds
    ELSE LET nb   == Head(neighbors)
             rs   == IF nb.userId \in DOMAIN m THEN m[nb.userId] ELSE EmptyMap
         IN  Predictions(AddNeighbor(preds, rs, nb.similarity, target_books, border),
                         m, Tail(neighbors), target_books, border)

\* Line 231 with the division by similarity_sum left out.
UndividedRating(pred) == pred.weighted_sum

\* Line 231: weighted_sum / similarity_sum, in units of 1/Scale.
PredictedRating(pred) == (pred.weighted_sum * Scale) \div pred.similarity_sum

\* Lines 226-232
RECURSIVE Recommendations(_)
Recommendations(preds) ==
    IF preds = <<>> THEN <<>>
    ELSE (IF Head(preds).similarity_sum > 0
          THEN <<[bookId |-> Head(preds).bookId,
                  predictedRating |-> PredictedRating(Head(preds))]>>
          ELSE <<>>) \o Recommendations(Tail(preds))

\* Lines 212-236 with the test of line 219 left out.
KnnRankedAll(m, user, neighbors, border, limit) ==
    Truncate(SortDesc(Recommendations(
                 Predictions(<<>>, m, neighbors, {}, border)),
             "predictedRating"), limit)

\* Lines 212-236: predict, sort by predicted rating, keep `limit`.
KnnRanked(m, user, neighbors, border, limit) ==
    Truncate(SortDesc(Recommendations(
                 Predictions(<<>>, m, neighbors, DOMAIN m[user], border)),
             "predictedRating"), limit)

\* The items the target has no score for.
Unseen(m, user) ==
    IF user \in DOMAIN m
    THEN UNION {DOMAIN m[u] : u \in DOMAIN m} \ DOMAIN m[user]
    ELSE {}

\* The orders in which the rating dicts can yield their items (the row
\* order of the query).  The items the target has scored are skipped by
\* line 219, so the orders are drawn up to the places of those items,
\* which are put first.
ItemOrders(m, user) ==
    IF user \in DOMAIN m
    THEN { AsSeq(DOMAIN m[user]) \o t : t \in Orders(Unseen(m, user)) }
    ELSE {<<>>}

\* The orders in which self.user_ids (list(set), line 146) can yield the
\* users.  The target is skipped by the loop (line 167), so the orders are
\* drawn up to the place of the target, which is put first.
UserOrders(ids, user) ==
    IF user \in ids
    THEN { <<user>> \o t : t \in Orders(ids \ {user}) }
    ELSE Orders(ids)

\* Lines 158-236 on the matrix m just built.  uorder is the order in which
\* self.user_ids yields the users, and border the order in which the
\* rating dicts yield their items: both are unspecified.
KnnResult(m, user, k, limit, uorder, border) ==
    IF user \notin DOMAIN m
    THEN [neighbors |-> <<>>, ret |-> <<>>]
    ELSE [neighbors |-> Neighbors(m, user, uorder, k),
          ret |-> IF Neighbors(m, user, uorder, k) = <<>> THEN <<>>
                  ELSE KnnRanked(m, user, Neighbors(m, user, uorder, k),
                                 border, limit)]

GetKnnRecommendations(user, k, limit) ==
    \E rows \in RowOrders(QueryResult) :
        /\ BuildFrom(rows)
        /\ \E uorder \in UserOrders(user_ids', user), border \in ItemOrders(user_item_matrix', user) :
             out' = [op |-> "knn", user |-> user, k |-> k, limit |-> limit,
                     knn |-> KnnResult(user_item_matrix', user, k, limit,
                                       uorder, border)]
        /\ UNCHANGED <<pending, dbVars, tfVars>>

----------------------------------------------------------------------------
(* Specification of the KNN scorer: the review table is drawn, then calls *)

MaxK == 2
MaxLimit == 2

BookOrder == <<"W", "X", "Y", "Z">>
KnnRatings == {3, 5}
KnnLengths == {0, 2, 3, 4}

\* A user's reviews: the first n books of the catalogue, n in KnnLengths,
\* the first one rated 5 and the others rated 3 or 5.
KnnReviewRows ==
    { row \in [Books -> {NoRating} \cup KnnRatings] :
        \E n \in KnnLengths :
            /\ \A i \in 1..Len(BookOrder) :
                   (row[BookOrder[i]] # NoRating) <=> (i <= n)
            /\ n > 0 => row[BookOrder[1]] = 5 }

UserOrder == <<"u1", "u2", "u3">>

RowCode(row) ==
    SumOver(DOMAIN BookOrder,
            [i \in DOMAIN BookOrder |-> row[BookOrder[i]] * 6^(i - 1)])

\* The review tables drawn: one table of each class of tables that differ
\* only by renaming the users (the calls range over every user).
KnnReviewTables ==
    { t \in [Users -> KnnReviewRows] :
        \A i, j \in DOMAIN UserOrder :
            i < j => RowCode(t[UserOrder[i]]) <= RowCode(t[UserOrder[j]]) }

InitKnn ==
    /\ \E t \in KnnReviewTables :
           reviews = [p \in Pairs |-> t[p[1]][p[2]]]
    /\ user_interactions = [p \in Pairs |-> NoInteractions]
    /\ catalog = Books
    /\ docs = [b \in Books |-> {}]
    /\ favorites = {}
    /\ book_tags = [b \in Books |-> {}]
    /\ stats = [b \in Books |-> NoStats]
    /\ NewService
    /\ out = [op |-> "init"]

NextKnn ==
    \E user \in Users, k \in 1..MaxK, limit \in 0..MaxLimit :
        /\ out.op = "init"
        /\ GetKnnRecommendations(user, k, limit)

SpecKnn == InitKnn /\ [][NextKnn]_vars

----------------------------------------------------------------------------
(* initialize_tfidf and get_content_based_recommendations *)

\* The terms a document can hold once it is lower-cased and the English stop
\* words are removed.  A term stands for any feature of the vectorizer (a
\* word or a pair of adjacent words); a document holds each term once.
Terms == {"action", "fantasy", "romance"}

\* TfidfVectorizer weighs term t by idf(t) = ln((1 + n) / (1 + df(t))) + 1,
\* n the number of documents and df(t) the number of them that hold t.
\* The table gives idf(t)^2 in hundredths: row n, column df(t).
IdfSquaredTable ==
    << <<100>>,
       <<198, 100>>,
       <<287, 166, 100>>,
       <<367, 228, 150, 100>> >>

DocumentFrequency(matrix, t) == Cardinality({i \in DOMAIN matrix : t \in matrix[i]})

IdfSquared(matrix, t) == IdfSquaredTable[Len(matrix)][DocumentFrequency(matrix, t)]

\* The dot product of rows i and j before normalisation.
DotProduct(matrix, i, j) ==
    SumOver(matrix[i] \cap matrix[j],
            [t \in matrix[i] \cap matrix[j] |-> IdfSquared(matrix, t)])

\* Line 99: cosine of rows i and j, in Scale units.  A row without terms is
\* the zero vector, whose cosine with every row is 0.
CosineSimilarity(matrix, i, j) ==
    IF DotProduct(matrix, i, i) = 0 \/ DotProduct(matrix, j, j) = 0 THEN 0
    ELSE (DotProduct(matrix, i, j) * Scale)
             \div ISqrt(DotProduct(matrix, i, i) * DotProduct(matrix, j, j))

CosineRow(matrix, index) ==
    [j \in DOMAIN matrix |-> CosineSimilarity(matrix, index, j)]

\* The fields of the service that hold the content index.
Tfidf ==
    [initialized |-> initialized, books |-> books,
     book_vectors |-> book_vectors, tfidf_matrix |-> tfidf_matrix]

Position(xs, x) == CHOOSE i \in DOMAIN xs : xs[i] = x

Reverse(xs) == [i \in DOMAIN xs |-> xs[Len(xs) + 1 - i]]

\* Lines 34-77 when fetch_all returns the books in `order`.  Rows are numbered
\* from 1 here (from 0 in the program).  book_vectors is written entry by
\* entry and never cleared.  fit_transform raises ValueError on a vocabulary
\* without terms; the except of line 76 swallows it, after self.books and
\* self.book_vectors were written.
InitializedTfidf(order) ==
    IF order = <<>>
    THEN [Tfidf EXCEPT !.books = <<>>]
    ELSE LET vectors   == [b \in DOMAIN book_vectors \cup {order[i] : i \in DOMAIN order} |->
                              IF \E i \in DOMAIN order : order[i] = b
                              THEN Position(order, b) ELSE book_vectors[b]]
             documents == [i \in DOMAIN order |-> docs[order[i]]]
         IN  IF UNION {documents[i] : i \in DOMAIN documents} = {}
             THEN [Tfidf EXCEPT !.books = order, !.book_vectors = vectors]
             ELSE [initialized |-> TRUE, books |-> order,
                   book_vectors |-> vectors, tfidf_matrix |-> documents]

\* routers/recommendations.py initialize_recommendations
\* The query of line 37 has no ORDER BY.  The row order decides the row
\* numbers only, and a query depends on them only through entries of
\* book_vectors left over from an earlier build, so two orders are drawn.
FetchOrders(S) == {AsSeq(S), Reverse(AsSeq(S))}

InitializeTfidf ==
    \E order \in FetchOrders(catalog) :
        /\ initialized' = InitializedTfidf(order).initialized
        /\ books' = InitializedTfidf(order).books
        /\ book_vectors' = InitializedTfidf(order).book_vectors
        /\ tfidf_matrix' = InitializedTfidf(order).tfidf_matrix
        /\ out' = [op |-> "initialize"]
        /\ UNCHANGED <<pending, dbVars, cfVars>>

\* similarities.argsort(): the row numbers in non-decreasing order of
\* similarity.  The default sort of numpy is not stable, so rows of equal
\* similarity come in any order.
ArgSorts(sims) ==
    { p \in Orders(DOMAIN sims) :
        \A i, j \in DOMAIN p : i < j => sims[p[i]] <= sims[p[j]] }

\* xs[start:stop] of Python for start >= 0.
PySlice(xs, start, stop) ==
    SubSeq(xs, start + 1,
           IF stop < 0 THEN (IF Len(xs) + stop < 0 THEN 0 ELSE Len(xs) + stop)
           ELSE IF stop > Len(xs) THEN Len(xs) ELSE stop)

\* Line 102 without the [1:...] that drops the head of the reversed order.
SimilarIndicesFromHead(perm, limit) == PySlice(Reverse(perm), 0, limit)

\* Line 102: similarities.argsort()[::-1][1:limit + 1]
SimilarIndices(perm, limit) == PySlice(Reverse(perm), 1, limit + 1)

\* Lines 104-110 without the test of line 105.
RECURSIVE ContentRowsUnfiltered(_, _, _)
ContentRowsUnfiltered(indices, sims, bks) ==
    IF indices = <<>> THEN <<>>
    ELSE << [bookId |-> bks[Head(indices)], similarity |-> sims[Head(indices)]] >>
         \o ContentRowsUnfiltered(Tail(indices), sims, bks)

\* Lines 104-110
RECURSIVE ContentRows(_, _, _)
ContentRows(indices, sims, bks) ==
    IF indices = <<>> THEN <<>>
    ELSE (IF sims[Head(indices)] > 0
          THEN << [bookId |-> bks[Head(indices)],
                   similarity |-> sims[Head(indices)]] >>
          ELSE <<>>) \o ContentRows(Tail(indices), sims, bks)

NoContent == [raised |-> FALSE, ret |-> <<>>]
IndexError == [raised |-> TRUE, ret |-> <<>>]

\* Lines 88-96: the calls that return [] before a similarity is computed.
ReturnsEarly(tf, seed) ==
    seed \notin DOMAIN tf.book_vectors \/ tf.tfidf_matrix = NoMatrix

\* Line 98 raises IndexError for a row number the matrix does not have.
RowMissing(tf, seed) == tf.book_vectors[seed] > Len(tf.tfidf_matrix)

\* The argsort results line 102 can see for this call.
ArgSortChoices(tf, seed) ==
    IF ReturnsEarly(tf, seed) \/ RowMissing(tf, seed) THEN {<<>>}
    ELSE ArgSorts(CosineRow(tf.tfidf_matrix, tf.book_vectors[seed]))

\* Lines 88-112 on the index tf; perm is the result of argsort.  Line 108
\* raises IndexError for a row that self.books does not have.
ContentBased(tf, seed, limit, perm) ==
    IF ReturnsEarly(tf, seed) THEN NoContent
    ELSE IF RowMissing(tf, seed) THEN IndexError
    ELSE LET sims    == CosineRow(tf.tfidf_matrix, tf.book_vectors[seed])
             indices == SimilarIndices(perm, limit)
         IN  IF \E i \in DOMAIN indices :
                    sims[indices[i]] > 0 /\ indices[i] > Len(tf.books)
             THEN IndexError
             ELSE [raised |-> FALSE, ret |-> ContentRows(indices, sims, tf.books)]

\* Lines 85-86: the index the call works on, `order` being the row order of
\* the lazy initialisation.
LazyTfidf(order) == IF initialized THEN Tfidf ELSE InitializedTfidf(order)

LazyOrders == IF initialized THEN {<<>>} ELSE FetchOrders(catalog)

GetContentBasedRecommendations(seed, limit) ==
    \E order \in LazyOrders :
        \E perm \in ArgSortChoices(LazyTfidf(order), seed) :
            /\ initialized' = LazyTfidf(order).initialized
            /\ books' = LazyTfidf(order).books
            /\ book_vectors' = LazyTfidf(order).book_vectors
            /\ tfidf_matrix' = LazyTfidf(order).tfidf_matrix
            /\ out' = [op |-> "content", seed |-> seed, limit |-> limit,
                       content |-> ContentBased(LazyTfidf(order), seed, limit, perm)]
            /\ UNCHANGED <<pending, dbVars, cfVars>>

\* routers/books.py delete_book: the rows that reference the book go with it
\* (models.py: cascade="all, delete-orphan", ondelete="CASCADE").
DeleteBook(b) ==
    /\ b \in catalog
    /\ catalog' = catalog \ {b}
    /\ docs' = [docs EXCEPT ![b] = {}]
    /\ stats' = [stats EXCEPT ![b] = NoStats]
    /\ reviews' = [p \in Pairs |-> IF p[2] = b THEN NoRating ELSE reviews[p]]
    /\ user_interactions' =
           [p \in Pairs |-> IF p[2] = b THEN NoInteractions ELSE user_interactions[p]]
    /\ favorites' = {f \in favorites : f.book_id # b}
    /\ book_tags' = [book_tags EXCEPT ![b] = {}]
    /\ out' = [op |-> "write"]
    /\ UNCHANGED <<pending, cfVars, tfVars>>

----------------------------------------------------------------------------
(* Specification of the content index: the documents are drawn, then the *)
(* index is built, queried, and books are deleted                        *)

\* The catalog at the start; the other book ids are ids the catalog never had.
ContentCatalog == {"W", "X", "Y"}

\* The documents drawn: no term, one tag, two tags, another tag.
Documents == { {}, {"action"}, {"action", "fantasy"}, {"romance"} }

DocCode(d) ==
    SumOver(d, [t \in Terms |-> IF t = "action" THEN 1
                                ELSE IF t = "fantasy" THEN 2 ELSE 4])

\* One assignment of documents of each class of assignments that differ
\* only by renaming the books (the calls range over every book).
DocumentTables ==
    { t \in [Books -> Documents] :
        /\ \A b \in Books \ ContentCatalog : t[b] = {}
        /\ \A i, j \in DOMAIN BookOrder :
               /\ i < j
               /\ BookOrder[i] \in ContentCatalog
               /\ BookOrder[j] \in ContentCatalog
               => DocCode(t[BookOrder[i]]) <= DocCode(t[BookOrder[j]]) }

InitContent ==
    /\ reviews = [p \in Pairs |-> NoRating]
    /\ user_interactions = [p \in Pairs |-> NoInteractions]
    /\ catalog = ContentCatalog
    /\ docs \in DocumentTables
    /\ favorites = {}
    /\ book_tags = [b \in Books |-> {}]
    /\ stats = [b \in Books |-> NoStats]
    /\ NewService
    /\ out = [op |-> "init"]

NextContent ==
    \/ InitializeTfidf
    \/ \E seed \in Books, limit \in 0..MaxLimit :
           GetContentBasedRecommendations(seed, limit)
    \/ \E b \in Books :
           /\ Cardinality(ContentCatalog \ catalog) < MaxDeleted
           /\ DeleteBook(b)

SpecContent == InitContent /\ [][NextContent]_vars

----------------------------------------------------------------------------
(* Specification of the lazy content index: books are created and deleted *)
(* while the index is built and queried                                   *)

\* routers/books.py create_book: a row of books under a fresh uuid, with the
\* texts and the tags of the request; d is the set of terms they hold.  An
\* id is fresh when no table and no field of the service holds it.
CreateBook(b, d) ==
    /\ b \notin catalog
    /\ b \notin DOMAIN book_vectors
    /\ b \notin {books[i] : i \in DOMAIN books}
    /\ b \notin book_ids
    /\ catalog' = catalog \cup {b}
    /\ docs' = [docs EXCEPT ![b] = d]
    /\ out' = [op |-> "write"]
    /\ UNCHANGED <<pending, reviews, user_interactions, stats, favorites, book_tags,
                   cfVars, tfVars>>

\* The catalog at the start of the lazy specification.
LazyCatalog == {"W", "X"}

LazyDocuments == { {}, {"action"}, {"action", "fantasy"} }

\* The books created while the service runs.
NewBooks == {"Y"}

InitLazy ==
    /\ reviews = [p \in Pairs |-> NoRating]
    /\ user_interactions = [p \in Pairs |-> NoInteractions]
    /\ catalog = LazyCatalog
    /\ \E dw, dx \in LazyDocuments :
           docs = [b \in Books |-> IF b = "W" THEN dw
                                   ELSE IF b = "X" THEN dx ELSE {}]
    /\ favorites = {}
    /\ book_tags = [b \in Books |-> {}]
    /\ stats = [b \in Books |-> NoStats]
    /\ NewService
    /\ out = [op |-> "init"]

NextLazy ==
    \/ InitializeTfidf
    \/ \E seed \in Books, limit \in 0..MaxLimit :
           GetContentBasedRecommendations(seed, limit)
    \/ \E b \in NewBooks, d \in LazyDocuments : CreateBook(b, d)
    \/ \E b \in LazyCatalog :
           /\ Cardinality(LazyCatalog \ catalog) < MaxDeleted
           /\ DeleteBook(b)

SpecLazy == InitLazy /\ [][NextLazy]_vars

----------------------------------------------------------------------------
(* get_popular_books *)

\* b.average_rating, b.total_reviews, b.view_count of book a come before
\* those of book b in ORDER BY ... DESC, ... DESC, ... DESC.
Outranks(a, b) ==
    \/ stats[a].avg > stats[b].avg
    \/ stats[a].avg = stats[b].avg /\ stats[a].reviews > stats[b].reviews
    \/ /\ stats[a].avg = stats[b].avg
       /\ stats[a].reviews = stats[b].reviews
       /\ stats[a].views > stats[b].views

\* The same query ordered by b.average_rating DESC alone.
OrdersByRatingAlone ==
    { p \in Orders(catalog) :
        \A i, j \in DOMAIN p : i < j => stats[p[i]].avg >= stats[p[j]].avg }

\* Line 445: the orders in which the query can return the books; rows equal
\* in the three columns come in any order.
PopularOrders ==
    { p \in Orders(catalog) :
        \A i, j \in DOMAIN p : i < j => ~Outranks(p[j], p[i]) }

\* Lines 439-449 and routers/recommendations.py get_popular_books, for
\* limit >= 0 (LIMIT :limit).
GetPopularBooks(limit) ==
    \E p \in PopularOrders :
        /\ out' = [op |-> "popular", limit |-> limit, ret |-> Truncate(p, limit)]
        /\ UNCHANGED <<pending, dbVars, cfVars, tfVars>>

Anonymous == "anonymous"

TotalViews == SumOver(Books, [b \in Books |-> stats[b].views])

\* routers/books.py get_book_by_id: 404 for an unknown book; the view count goes
\* up by one and a signed-in viewer leaves an interaction of weight 1.
GetBookById(viewer, b) ==
    /\ b \in catalog
    /\ TotalViews < MaxViews
    /\ viewer # Anonymous => TotalInteractions < MaxInteractions
    /\ stats' = [stats EXCEPT ![b].views = @ + 1]
    /\ user_interactions' =
           IF viewer = Anonymous THEN user_interactions
           ELSE [user_interactions EXCEPT ![<<viewer, b>>][1] = @ + 1]
    /\ out' = [op |-> "write"]
    /\ UNCHANGED <<pending, reviews, catalog, docs, favorites, book_tags, cfVars, tfVars>>

----------------------------------------------------------------------------
(* Specification of the popularity ranker: the statistics are drawn, then *)
(* books are viewed and the ranking is asked for                          *)

\* average_rating in hundredths (Numeric(3, 2)) and total_reviews, as drawn.
AverageRatings == {0, 450}
ReviewTotals == {0, 1}

StatsCode(s) == (IF s.avg = 0 THEN 0 ELSE 2) + s.reviews

\* An empty catalog, or three books with one table of statistics of each
\* class of tables that differ only by renaming the books.
StatsTables ==
    { t \in [Books -> [avg : AverageRatings, reviews : ReviewTotals, views : {0}]] :
        /\ \A b \in Books \ ContentCatalog : t[b] = NoStats
        /\ \A i, j \in DOMAIN BookOrder :
               /\ i < j
               /\ BookOrder[i] \in ContentCatalog
               /\ BookOrder[j] \in ContentCatalog
               => StatsCode(t[BookOrder[i]]) <= StatsCode(t[BookOrder[j]]) }

InitPopular ==
    /\ reviews = [p \in Pairs |-> NoRating]
    /\ user_interactions = [p \in Pairs |-> NoInteractions]
    /\ \/ catalog = ContentCatalog /\ stats \in StatsTables
       \/ catalog = {} /\ stats = [b \in Books |-> NoStats]
    /\ docs = [b \in Books |-> {}]
    /\ favorites = {}
    /\ book_tags = [b \in Books |-> {}]
    /\ NewService
    /\ out = [op |-> "init"]

NextPopular ==
    \/ \E limit \in 0..MaxLimit : GetPopularBooks(limit)
    \/ \E viewer \in {Anonymous, "u1"}, b \in Books : GetBookById(viewer, b)

SpecPopular == InitPopular /\ [][NextPopular]_vars

----------------------------------------------------------------------------
(* get_svd_recommendations *)

\* The predictions of lines 277-308 come from factors that np.random
\* initialises (unseeded unless ML_RANDOM_SEED is set) and that 100 rounds
\* of floating-point gradient descent train: the value predicted for a book
\* is drawn.  The profiles drawn: the same value for every book, values
\* rising along the catalogue, values falling along it.
SvdProfiles ==
    { [b \in Books |-> 3 * Scale],
      [b \in Books |-> Position(BookOrder, b) * Scale],
      [b \in Books |-> (5 - Position(BookOrder, b)) * Scale] }

\* Lines 306-309: one prediction per book of self.book_ids the target has
\* no score for, in the order of self.book_ids.
RECURSIVE SvdPredictions(_, _, _)
SvdPredictions(border, seen, predicted) ==
    IF border = <<>> THEN <<>>
    ELSE (IF Head(border) \in seen THEN <<>>
          ELSE << [bookId |-> Head(border),
                   predictedRating |-> predicted[Head(border)]] >>)
         \o SvdPredictions(Tail(border), seen, predicted)

\* Lines 247-312 without the sort of line 311.
SvdResultUnsorted(m, ids, user, limit, predicted, border) ==
    IF user \notin DOMAIN m \/ Cardinality(ids) < 2 THEN <<>>
    ELSE Truncate(SvdPredictions(border, DOMAIN m[user], predicted), limit)

\* Lines 247-312 on the matrix m just built; border is the order of
\* self.book_ids (list(set), line 147).
SvdResult(m, ids, user, limit, predicted, border) ==
    IF user \notin DOMAIN m \/ Cardinality(ids) < 2 THEN <<>>
    ELSE Truncate(SortDesc(SvdPredictions(border, DOMAIN m[user], predicted),
                           "predictedRating"),
                  limit)

\* GET /recommendations/collaborative/svd passes the query parameter
\* `factors` unvalidated (an int, default 10).
Factors == {-1, 0, 2}

\* With no factor the dot product of line 308 is over empty vectors: every
\* prediction is 0.0.
SvdProfilesFor(factors) ==
    IF factors = 0 THEN { [b \in Books |-> 0] } ELSE SvdProfiles

\* Lines 245-312: the guard of line 248 returns before anything else; past
\* it, np.random.rand (line 280) raises ValueError on a negative dimension.
SvdOutcome(m, ids, user, factors, limit, predicted, border) ==
    IF user \notin DOMAIN m \/ Cardinality(ids) < 2
    THEN [raised |-> FALSE, ret |-> <<>>]
    ELSE IF factors < 0
    THEN [raised |-> TRUE, ret |-> <<>>]
    ELSE [raised |-> FALSE,
          ret |-> SvdResult(m, ids, user, limit, predicted, border)]

GetSvdRecommendations(user, factors, limit) ==
    \E rows \in RowOrders(QueryResult) :
        /\ BuildFrom(rows)
        /\ \E border \in ItemOrders(user_item_matrix', user),
              predicted \in SvdProfilesFor(factors) :
             out' = [op |-> "svd", user |-> user, factors |-> factors,
                     limit |-> limit,
                     svd |-> SvdOutcome(user_item_matrix', user_ids', user,
                                        factors, limit, predicted, border)]
        /\ UNCHANGED <<pending, dbVars, tfVars>>

----------------------------------------------------------------------------
(* Specification of the latent-factor scorer: the review table is drawn,  *)
(* then calls                                                             *)

SvdCatalog == {"W", "X", "Y"}

\* A user's reviews: any set of books of SvdCatalog, each rated 5 (the
\* ratings reach the result only through the trained factors, which are
\* drawn).
SvdReviewRows ==
    { row \in [Books -> {NoRating, 5}] :
        \A b \in Books \ SvdCatalog : row[b] = NoRating }

\* One table of each class of tables that differ only by renaming the users.
SvdReviewTables ==
    { t \in [Users -> SvdReviewRows] :
        \A i, j \in DOMAIN UserOrder :
            i < j => RowCode(t[UserOrder[i]]) <= RowCode(t[UserOrder[j]]) }

InitSvd ==
    /\ \E t \in SvdReviewTables :
           reviews = [p \in Pairs |-> t[p[1]][p[2]]]
    /\ user_interactions = [p \in Pairs |-> NoInteractions]
    /\ catalog = Books
    /\ docs = [b \in Books |-> {}]
    /\ favorites = {}
    /\ book_tags = [b \in Books |-> {}]
    /\ stats = [b \in Books |-> NoStats]
    /\ NewService
    /\ out = [op |-> "init"]

NextSvd ==
    \E user \in Users, factors \in Factors, limit \in 0..MaxLimit :
        /\ out.op = "init"
        /\ GetSvdRecommendations(user, factors, limit)

SpecSvd == InitSvd /\ [][NextSvd]_vars

----------------------------------------------------------------------------
(* get_hybrid_recommendations and its route *)

NoSeed == "none"

\* Lines 322-326 and 344, 352: the weights in tenths, and the divisor that
\* brings a predicted rating to 0..1.  A blended score is kept in units of
\* 1 / (10 * RatingScale * Scale).
ContentWeight == 3
KnnWeight == 4
SvdWeight == 3
RatingScale == 5

\* The k and the number of factors of lines 339 and 347.
HybridK == 5

HasEntry(acc, b) == \E i \in DOMAIN acc : acc[i].bookId = b

\* The accumulation loop with = in place of += .
RECURSIVE PutScores(_, _, _, _)
PutScores(acc, recs, field, weight) ==
    IF recs = <<>> THEN acc
    ELSE LET rec  == Head(recs)
             acc1 == IF HasEntry(acc, rec.bookId) THEN acc
                     ELSE Append(acc, [bookId |-> rec.bookId, score |-> 0])
             acc2 == [i \in DOMAIN acc1 |->
                        IF acc1[i].bookId = rec.bookId
                        THEN [acc1[i] EXCEPT !.score = rec[field] * weight]
                        ELSE acc1[i]]
         IN  PutScores(acc2, Tail(recs), field, weight)

\* Lines 332-336, 340-344, 348-352: the entries keep their insertion order.
RECURSIVE AddScores(_, _, _, _)
AddScores(acc, recs, field, weight) ==
    IF recs = <<>> THEN acc
    ELSE LET rec  == Head(recs)
             acc1 == IF HasEntry(acc, rec.bookId) THEN acc
                     ELSE Append(acc, [bookId |-> rec.bookId, score |-> 0])
             acc2 == [i \in DOMAIN acc1 |->
                        IF acc1[i].bookId = rec.bookId
                        THEN [acc1[i] EXCEPT !.score = @ + rec[field] * weight]
                        ELSE acc1[i]]
         IN  AddScores(acc2, Tail(recs), field, weight)

\* Lines 321-362: accumulate the three lists, sort, truncate.
SortedRecs(content, knn, svd, limit) ==
    Truncate(
        SortDesc(
            AddScores(
                AddScores(
                    AddScores(<<>>, content, "similarity", ContentWeight * RatingScale),
                    knn, "predictedRating", KnnWeight),
                svd, "predictedRating", SvdWeight),
            "score"),
        limit)

\* Lines 365-380: the entries whose book the books table still has.
RECURSIVE WithDetails(_, _)
WithDetails(recs, cat) ==
    IF recs = <<>> THEN <<>>
    ELSE (IF Head(recs).bookId \in cat THEN <<Head(recs)>> ELSE <<>>)
         \o WithDetails(Tail(recs), cat)

\* routers/recommendations.py 111-115: the route answers with the entries of
\* the service's list that carry a book, in the order of that list.
HybridResponse(recs) == WithDetails(recs, catalog)

\* The try block of lines 328-355 without its except clause: what a scorer
\* raised leaves the request.
EscapedWithoutExcept(failed) == failed

\* Line 354: `except Exception` catches what a scorer raised (IndexError, an
\* error of the database driver) and raises nothing itself.
Escaped(failed) == "none"

\* What the request returns from the lists the scorers gave before one of
\* them raised (failed names it, "none" when none did).
HybridOutcome(user, seed, limit, failed, content, knn, svd) ==
    [op |-> "hybrid", user |-> user, seed |-> seed, limit |-> limit,
     failed |-> failed, raised |-> failed # "none", error |-> Escaped(failed),
     content |-> content, knn |-> knn, svd |-> svd,
     ret |-> WithDetails(SortedRecs(content, knn, svd, limit), catalog),
     response |-> HybridResponse(WithDetails(SortedRecs(content, knn, svd, limit),
                                             catalog))]

\* What the request returns when the content scorer raised: the except of
\* line 354 ends the try block before the other two scorers are called.
HybridAfterError(user, seed, limit) ==
    HybridOutcome(user, seed, limit, "content", <<>>, <<>>, <<>>)

\* The content part of the request, lines 330-331: skipped without a seed.
HybridContent(tf, seed, limit, perm) ==
    IF seed = NoSeed THEN NoContent ELSE ContentBased(tf, seed, 2 * limit, perm)

\* The query of build_user_item_matrix (line 130) can raise an error of the
\* database driver: in the KNN scorer, in the latent-factor scorer, or in
\* neither.
Failures == {"none", "knn", "svd"}

\* GET /recommendations/hybrid: the route and lines 314-382 of the service.
\* Each of the two collaborative scorers rebuilds the matrix; a query that
\* raises leaves the matrix as it was (line 130 comes before line 132).
GetHybridRecommendations(user, seed, limit) ==
    \E order \in (IF seed = NoSeed THEN {<<>>} ELSE LazyOrders) :
      LET tf == IF seed = NoSeed THEN Tfidf ELSE LazyTfidf(order) IN
      \E perm \in (IF seed = NoSeed THEN {<<>>} ELSE ArgSortChoices(tf, seed)) :
        /\ initialized' = tf.initialized
        /\ books' = tf.books
        /\ book_vectors' = tf.book_vectors
        /\ tfidf_matrix' = tf.tfidf_matrix
        /\ UNCHANGED <<pending, dbVars>>
        /\ IF HybridContent(tf, seed, limit, perm).raised
           THEN /\ UNCHANGED cfVars
                /\ out' = HybridAfterError(user, seed, limit)
           ELSE \E failed \in Failures :
                  IF failed = "knn"
                  THEN /\ UNCHANGED cfVars
                       /\ out' = HybridOutcome(user, seed, limit, failed,
                                     HybridContent(tf, seed, limit, perm).ret,
                                     <<>>, <<>>)
                  ELSE \E rows1 \in RowOrders(QueryResult),
                          rows2 \in RowOrders(QueryResult) :
                    /\ BuildFrom(IF failed = "svd" THEN rows1 ELSE rows2)
                    /\ \E uorder \in UserOrders(RowUsers(rows1), user),
                          border \in ItemOrders(BuiltMatrix(rows1, user_item_matrix), user),
                          sorder \in (IF failed = "svd" THEN {<<>>}
                                      ELSE ItemOrders(user_item_matrix', user)),
                          predicted \in (IF failed = "svd" THEN {EmptyMap}
                                         ELSE SvdProfiles) :
                         out' = HybridOutcome(user, seed, limit, failed,
                                    HybridContent(tf, seed, limit, perm).ret,
                                    KnnResult(BuiltMatrix(rows1, user_item_matrix), user,
                                              HybridK, 2 * limit, uorder, border).ret,
                                    IF failed = "svd" THEN <<>>
                                    ELSE SvdResult(user_item_matrix', user_ids', user,
                                                   2 * limit, predicted, sorder))

----------------------------------------------------------------------------
(* Specification of the hybrid ranker: the reviews and the documents are  *)
(* drawn; the index is built, a book is deleted, and one request is made  *)

\* A user's reviews: none, or W=5 and X=3, then possibly Y=5, then Z.
HybridReviewRows ==
    { row \in KnnReviewRows :
        row["X"] \in {NoRating, 3} /\ row["Y"] \in {NoRating, 5} }

\* One user has no review; the tables differ by more than the names of the
\* other two (the requests range over every user).
HybridReviewTables ==
    { t \in KnnReviewTables :
        /\ \A u \in Users : t[u] \in HybridReviewRows
        /\ \A b \in Books : t[UserOrder[1]][b] = NoRating }

\* Documents without any term, and documents where Z shares every term of W.
HybridDocuments ==
    { [b \in Books |-> {}],
      [b \in Books |-> IF b \in {"W", "Z"} THEN {"action", "fantasy"} ELSE {"action"}] }

InitHybrid ==
    /\ \E t \in HybridReviewTables :
           reviews = [p \in Pairs |-> t[p[1]][p[2]]]
    /\ user_interactions = [p \in Pairs |-> NoInteractions]
    /\ catalog = Books
    /\ docs \in HybridDocuments
    /\ favorites = {}
    /\ book_tags = [b \in Books |-> {}]
    /\ stats = [b \in Books |-> NoStats]
    /\ NewService
    /\ out = [op |-> "init"]

\* A behaviour is a history of index builds and deletions ended by one
\* request: a request writes no table, and the index it builds lazily is the
\* one InitializeTfidf builds.
NextHybrid ==
    \/ out.op # "hybrid" /\ InitializeTfidf
    \/ /\ out.op # "hybrid"
       /\ Cardinality(Books \ catalog) < MaxDeleted
       /\ DeleteBook("Z")
    \/ /\ out.op # "hybrid"
       /\ \E user \in Users, seed \in Books \cup {NoSeed}, limit \in 0..MaxLimit :
              GetHybridRecommendations(user, seed, limit)

SpecHybrid == InitHybrid /\ [][NextHybrid]_vars

----------------------------------------------------------------------------
(* get_personalized_recommendations *)

Tags == {"t1", "t2", "t3", "t4", "t5", "t6"}

\* LIMIT 5 of the preferences query.
TopTags == 5

MaxFavorites == 1

ListNames == {"favorites", "reading"}

\* routers/favorites.py add_favorite: 409 when the book is already in the
\* list; the row references a book of the catalog (foreign key).
AddFavorite(p, list) ==
    LET row == [user_id |-> p[1], book_id |-> p[2], list_name |-> list] IN
    /\ p[2] \in catalog
    /\ row \notin favorites
    /\ Cardinality(favorites) < MaxFavorites
    /\ favorites' = favorites \cup {row}
    /\ out' = [op |-> "write"]
    /\ UNCHANGED <<pending, reviews, user_interactions, catalog, docs, stats, book_tags,
                   cfVars, tfVars>>

\* Lines 390-401: the groups of the join of the user's interactions with
\* book_tags, and SUM(ui.interaction_weight) of a group.
PreferenceTags(user) ==
    { t \in Tags : \E b \in Books : HasInteraction(<<user, b>>) /\ t \in book_tags[b] }

PreferenceScore(user, t) ==
    SumOver({b \in Books : t \in book_tags[b]},
            [b \in Books |-> SumWeight(<<user, b>>)])

\* ORDER BY preference_score DESC LIMIT 5: the sets of tags the query can
\* return; tags of equal score at the cut are taken in any order.
PreferredChoices(user) ==
    { T \in SUBSET PreferenceTags(user) :
        /\ Cardinality(T) = IF Cardinality(PreferenceTags(user)) < TopTags
                            THEN Cardinality(PreferenceTags(user)) ELSE TopTags
        /\ \A t \in T, s \in PreferenceTags(user) \ T :
               PreferenceScore(user, t) >= PreferenceScore(user, s) }

\* The sub-select of lines 422-428 without its third branch.
SeenWithoutFavorites(user) ==
    { b \in Books : HasInteraction(<<user, b>>) \/ HasReview(<<user, b>>) }

\* Lines 422-428: the books of the user's interactions, reviews and
\* favorites.
Seen(user) ==
    { b \in Books : \/ HasInteraction(<<user, b>>)
                    \/ HasReview(<<user, b>>)
                    \/ \E f \in favorites : f.user_id = user /\ f.book_id = b }

\* COUNT(bt.tag_id) of a book's group: its book_tags rows with a preferred tag.
MatchingTags(b, preferred) == Cardinality(book_tags[b] \cap preferred)

\* Lines 417-430: the books with a group that pass the NOT IN.
MatchingBooks(user, preferred) ==
    { b \in catalog : MatchingTags(b, preferred) > 0 /\ b \notin Seen(user) }

\* ORDER BY matching_tags DESC, b.average_rating DESC: the orders in which
\* the query can return the rows; rows equal in both come in any order.
PersonalizedOrders(user, preferred) ==
    { p \in Orders(MatchingBooks(user, preferred)) :
        \A i, j \in DOMAIN p :
            i < j =>
              \/ MatchingTags(p[i], preferred) > MatchingTags(p[j], preferred)
              \/ /\ MatchingTags(p[i], preferred) = MatchingTags(p[j], preferred)
                 /\ stats[p[i]].avg >= stats[p[j]].avg }

\* GET /recommendations/personalized and lines 384-437, for limit >= 0:
\* the popular books when the preferences query returns no row (line 407),
\* otherwise the rows of the second query (line 437).
GetPersonalizedRecommendations(user, limit) ==
    /\ IF PreferenceTags(user) = {}
       THEN \E p \in PopularOrders :
                out' = [op |-> "personalized", user |-> user, limit |-> limit,
                        preferred |-> {}, popular |-> TRUE,
                        ret |-> Truncate(p, limit)]
       ELSE \E preferred \in PreferredChoices(user) :
            \E p \in PersonalizedOrders(user, preferred) :
                out' = [op |-> "personalized", user |-> user, limit |-> limit,
                        preferred |-> preferred, popular |-> FALSE,
                        ret |-> Truncate(p, limit)]
    /\ UNCHANGED <<pending, dbVars, cfVars, tfVars>>

----------------------------------------------------------------------------
(* Specification of the personalized ranker: the tags and the ratings of  *)
(* the books are drawn; events are recorded and one request is made       *)

\* The events of a behaviour, of the three kinds together.
MaxEvents == 2

EventCount == TotalInteractions + ReviewCount + Cardinality(favorites)

\* The events are u1's; u2 makes requests without any event of its own.
PersonalizedPairs == {"u1"} \X Books

\* Six tags on two books, with a book of one tag and a book of two; and two
\* tags spread over the four books.
TagTables ==
    { [W |-> {"t1", "t2", "t3"}, X |-> {"t4", "t5", "t6"},
       Y |-> {"t6"}, Z |-> {"t1", "t4"}],
      [W |-> {"t1", "t2"}, X |-> {"t1", "t2"}, Y |-> {"t1"}, Z |-> {"t2"}] }

\* average_rating: no book rated, or Z rated.
RatedBooks == { {}, {"Z"} }

InitPersonalized ==
    /\ reviews = [p \in Pairs |-> NoRating]
    /\ user_interactions = [p \in Pairs |-> NoInteractions]
    /\ catalog = Books
    /\ docs = [b \in Books |-> {}]
    /\ \E R \in RatedBooks :
           stats = [b \in Books |-> [avg |-> IF b \in R THEN 450 ELSE 0,
                                     reviews |-> 0, views |-> 0]]
    /\ favorites = {}
    /\ book_tags \in TagTables
    /\ NewService
    /\ out = [op |-> "init"]

\* A behaviour is a history of events ended by one request: a request
\* writes nothing.
NextPersonalized ==
    \/ /\ out.op # "personalized"
       /\ EventCount < MaxEvents
       /\ \E p \in PersonalizedPairs, w \in Weights : RecordInteraction(p, w)
    \/ /\ out.op # "personalized"
       /\ EventCount < MaxEvents
       /\ \E p \in PersonalizedPairs : CreateReview(p, 5)
    \/ /\ out.op # "personalized"
       /\ EventCount < MaxEvents
       /\ \E p \in PersonalizedPairs : AddFavorite(p, "favorites")
    \/ /\ out.op # "personalized"
       /\ \E user \in {"u1", "u2"}, limit \in 0..MaxLimit :
              GetPersonalizedRecommendations(user, limit)

SpecPersonalized == InitPersonalized /\ [][NextPersonalized]_vars

----------------------------------------------------------------------------
(* Specification of the limits: the data of the hybrid specification, and *)
(* one call of a scorer with a limit of either sign                       *)

\* The routes declare `limit: int = 10` and pass it on as it comes.
Limits == (0 - MaxLimit)..MaxLimit

InitLimits == InitHybrid

NextLimits ==
    \/ /\ out.op = "init"
       /\ \E seed \in Books, limit \in Limits :
              GetContentBasedRecommendations(seed, limit)
    \/ /\ out.op = "init"
       /\ \E user \in Users, k \in 1..MaxK, limit \in Limits :
              GetKnnRecommendations(user, k, limit)
    \/ /\ out.op = "init"
       /\ \E user \in Users, limit \in Limits :
              GetSvdRecommendations(user, 2, limit)
    \/ /\ out.op = "init"
       /\ \E user \in Users, seed \in Books \cup {NoSeed}, limit \in Limits :
              GetHybridRecommendations(user, seed, limit)

SpecLimits == InitLimits /\ [][NextLimits]_vars

----------------------------------------------------------------------------
(* Calls that interleave on the event loop: a call runs to its next await, *)
(* waits there for its rows and resumes later; other calls run in between  *)

\* The number of calls that wait at an await at the same time.
MaxPending == 2

\* The rows of the query of line 37 when it returns the books in `order`:
\* the id and the terms of the texts of each row.
BookRows(order) ==
    [i \in DOMAIN order |-> [id |-> order[i], document |-> docs[order[i]]]]

\* Lines 46-73 on the rows the await of line 45 returned (InitializedTfidf,
\* with the documents read when the query ran).
ResumedTfidf(rows) ==
    IF rows = <<>>
    THEN [Tfidf EXCEPT !.books = <<>>]
    ELSE LET order     == [i \in DOMAIN rows |-> rows[i].id]
             vectors   == [b \in DOMAIN book_vectors \cup {order[i] : i \in DOMAIN order} |->
                              IF \E i \in DOMAIN order : order[i] = b
                              THEN Position(order, b) ELSE book_vectors[b]]
             documents == [i \in DOMAIN rows |-> rows[i].document]
         IN  IF UNION {documents[i] : i \in DOMAIN documents} = {}
             THEN [Tfidf EXCEPT !.books = order, !.book_vectors = vectors]
             ELSE [initialized |-> TRUE, books |-> order,
                   book_vectors |-> vectors, tfidf_matrix |-> documents]

\* initialize_tfidf up to the await of line 45: the query runs and the call
\* waits for its rows.
InitializeAwaits ==
    /\ Cardinality(pending) < MaxPending
    /\ \E order \in FetchOrders(catalog) :
           pending' = pending \cup {[op |-> "initialize", rows |-> BookRows(order)]}
    /\ out' = [op |-> "await"]
    /\ UNCHANGED <<dbVars, cfVars, tfVars>>

\* get_content_based_recommendations: to its end when the index is
\* initialized (no await is reached), else to the await of line 45, reached
\* through line 86.
ContentStarts(seed, limit) ==
    IF initialized
    THEN GetContentBasedRecommendations(seed, limit)
    ELSE /\ Cardinality(pending) < MaxPending
         /\ \E order \in FetchOrders(catalog) :
                pending' = pending \cup {[op |-> "content", seed |-> seed,
                                          limit |-> limit, rows |-> BookRows(order)]}
         /\ out' = [op |-> "await"]
         /\ UNCHANGED <<dbVars, cfVars, tfVars>>

\* A call that waits at line 45 resumes with its rows: lines 46-73 run to
\* the end of initialize_tfidf, and in a query lines 88-112 follow; no await
\* is left on the way.
IndexCallResumes(c) ==
    /\ c \in pending
    /\ c.op \in {"initialize", "content"}
    /\ pending' = pending \ {c}
    /\ initialized' = ResumedTfidf(c.rows).initialized
    /\ books' = ResumedTfidf(c.rows).books
    /\ book_vectors' = ResumedTfidf(c.rows).book_vectors
    /\ tfidf_matrix' = ResumedTfidf(c.rows).tfidf_matrix
    /\ IF c.op = "initialize"
       THEN out' = [op |-> "initialize"]
       ELSE \E perm \in ArgSortChoices(ResumedTfidf(c.rows), c.seed) :
                out' = [op |-> "content", seed |-> c.seed, limit |-> c.limit,
                        content |-> ContentBased(ResumedTfidf(c.rows), c.seed,
                                                 c.limit, perm)]
    /\ UNCHANGED <<dbVars, cfVars>>

\* The documents of the two books the catalog starts with.
SharedDocuments == { {"action"}, {"action", "fantasy"} }

InitConcurrentIndex ==
    /\ reviews = [p \in Pairs |-> NoRating]
    /\ user_interactions = [p \in Pairs |-> NoInteractions]
    /\ catalog = LazyCatalog
    /\ \E d \in SharedDocuments :
           docs = [b \in Books |-> IF b = "W" THEN {"action"}
                                   ELSE IF b = "X" THEN d ELSE {}]
    /\ favorites = {}
    /\ book_tags = [b \in Books |-> {}]
    /\ stats = [b \in Books |-> NoStats]
    /\ NewService
    /\ out = [op |-> "init"]

NextConcurrentIndex ==
    \/ InitializeAwaits
    \/ \E seed \in Books : ContentStarts(seed, MaxLimit)
    \/ \E c \in pending : IndexCallResumes(c)
    \/ \E b \in NewBooks, d \in SharedDocuments : CreateBook(b, d)

SpecConcurrentIndex == InitConcurrentIndex /\ [][NextConcurrentIndex]_vars

----------------------------------------------------------------------------
(* The collaborative scorers as interleaving calls: each waits once, at    *)
(* the query of build_user_item_matrix (line 130)                          *)

\* The loop of lines 132-144 when line 132 is left out and the sets of
\* lines 146-147 are added to the old ones.
BuildOnto(rows) ==
    /\ user_item_matrix' = FillMatrix(rows, user_item_matrix)
    /\ user_ids' = user_ids \cup RowUsers(rows)
    /\ book_ids' = book_ids \cup RowBooks(rows)

\* Lines 131-147 in a call that resumes with `rows`.
RebuildFrom(rows) == BuildFrom(rows)

\* get_knn_recommendations up to the await of line 130 (through line 156):
\* the query runs and the call waits for its rows.
KnnAwaits(user, k, limit) ==
    /\ Cardinality(pending) < MaxPending
    /\ \E rows \in RowOrders(QueryResult) :
           pending' = pending \cup {[op |-> "knn", user |-> user, k |-> k,
                                     limit |-> limit, rows |-> rows]}
    /\ out' = [op |-> "await"]
    /\ UNCHANGED <<dbVars, cfVars, tfVars>>

\* The call resumes: lines 131-147, then lines 158-236, without an await.
\* `found` is the shared matrix as the call finds it when it resumes.
KnnResumes(c) ==
    /\ c \in pending
    /\ c.op = "knn"
    /\ pending' = pending \ {c}
    /\ RebuildFrom(c.rows)
    /\ \E uorder \in UserOrders(user_ids', c.user),
          border \in ItemOrders(user_item_matrix', c.user) :
           out' = [op |-> "knn", user |-> c.user, k |-> c.k, limit |-> c.limit,
                   rows |-> c.rows, found |-> user_item_matrix,
                   knn |-> KnnResult(user_item_matrix', c.user, c.k, c.limit,
                                     uorder, border)]
    /\ UNCHANGED <<dbVars, tfVars>>

\* get_svd_recommendations up to the await of line 130 (through line 245).
SvdAwaits(user, factors, limit) ==
    /\ Cardinality(pending) < MaxPending
    /\ \E rows \in RowOrders(QueryResult) :
           pending' = pending \cup {[op |-> "svd", user |-> user, factors |-> factors,
                                     limit |-> limit, rows |-> rows]}
    /\ out' = [op |-> "await"]
    /\ UNCHANGED <<dbVars, cfVars, tfVars>>

\* The call resumes: lines 131-147, then lines 247-312, without an await.
SvdResumes(c) ==
    /\ c \in pending
    /\ c.op = "svd"
    /\ pending' = pending \ {c}
    /\ RebuildFrom(c.rows)
    /\ \E border \in ItemOrders(user_item_matrix', c.user),
          predicted \in SvdProfilesFor(c.factors) :
           out' = [op |-> "svd", user |-> c.user, factors |-> c.factors,
                   limit |-> c.limit, rows |-> c.rows, found |-> user_item_matrix,
                   predicted |-> predicted,
                   svd |-> SvdOutcome(user_item_matrix', user_ids', c.user,
                                      c.factors, c.limit, predicted, border)]
    /\ UNCHANGED <<dbVars, tfVars>>

\* get_hybrid_recommendations without a seed book (line 330 skips the
\* content scorer) up to its first await: line 339, through 156, to 130.
HybridAwaits(user, limit) ==
    /\ Cardinality(pending) < MaxPending
    /\ \E rows \in RowOrders(QueryResult) :
           pending' = pending \cup {[op |-> "hybrid", stage |-> "knn", user |-> user,
                                     limit |-> limit, rows |-> rows]}
    /\ out' = [op |-> "await"]
    /\ UNCHANGED <<dbVars, cfVars, tfVars>>

\* The call resumes in the KNN scorer: lines 131-147 and 158-236, the loop
\* of lines 340-344, then line 347, through 245, to the await of line 130,
\* where the query runs again.
HybridKnnResumes(c) ==
    /\ c \in pending
    /\ c.op = "hybrid"
    /\ c.stage = "knn"
    /\ RebuildFrom(c.rows)
    /\ \E uorder \in UserOrders(user_ids', c.user),
          border \in ItemOrders(user_item_matrix', c.user),
          rows \in RowOrders(QueryResult) :
           pending' = (pending \ {c}) \cup
               {[op |-> "hybrid", stage |-> "svd", user |-> c.user,
                 limit |-> c.limit, rows |-> rows, knnRows |-> c.rows,
                 knn |-> KnnResult(user_item_matrix', c.user, HybridK,
                                   2 * c.limit, uorder, border).ret]}
    /\ out' = [op |-> "await"]
    /\ UNCHANGED <<dbVars, tfVars>>

\* What the call returns, lines 357-382, from the lists of the two scorers
\* and the books the details query found.
ConcurrentHybridOutcome(c, svdRows, svd, found) ==
    [op |-> "hybrid", user |-> c.user, seed |-> NoSeed, limit |-> c.limit,
     knnRows |-> c.knnRows, svdRows |-> svdRows, knn |-> c.knn, svd |-> svd,
     ret |-> WithDetails(SortedRecs(<<>>, c.knn, svd, c.limit), found)]

\* The call resumes in the latent-factor scorer: lines 131-147 and 247-312,
\* the loop of lines 348-352 and the sort of line 358; with an empty list
\* it returns, else it waits for the details query of line 373.
HybridSvdResumes(c) ==
    /\ c \in pending
    /\ c.op = "hybrid"
    /\ c.stage = "svd"
    /\ RebuildFrom(c.rows)
    /\ \E border \in ItemOrders(user_item_matrix', c.user),
          predicted \in SvdProfiles :
         LET svd == SvdResult(user_item_matrix', user_ids', c.user,
                              2 * c.limit, predicted, border)
         IN  IF SortedRecs(<<>>, c.knn, svd, c.limit) = <<>>
             THEN /\ pending' = pending \ {c}
                  /\ out' = ConcurrentHybridOutcome(c, c.rows, svd, {})
             ELSE /\ pending' = (pending \ {c}) \cup
                        {[op |-> "hybrid", stage |-> "details", user |-> c.user,
                          limit |-> c.limit, rows |-> c.rows, knnRows |-> c.knnRows,
                          knn |-> c.knn, svd |-> svd, found |-> catalog]}
                  /\ out' = [op |-> "await"]
    /\ UNCHANGED <<dbVars, tfVars>>

\* The call resumes with the rows of the details query: lines 375-380.
HybridDetailsResume(c) ==
    /\ c \in pending
    /\ c.op = "hybrid"
    /\ c.stage = "details"
    /\ pending' = pending \ {c}
    /\ out' = ConcurrentHybridOutcome(c, c.rows, c.svd, c.found)
    /\ UNCHANGED <<dbVars, cfVars, tfVars>>

\* The reviews at the start: u1 rated W = 5 and X = 3, u2 the same and Y = 5.
ConcurrentReviews ==
    [p \in Pairs |-> IF p \in {<<"u1", "W">>, <<"u2", "W">>, <<"u2", "Y">>} THEN 5
                     ELSE IF p \in {<<"u1", "X">>, <<"u2", "X">>} THEN 3
                     ELSE NoRating]

\* The (user, book) pairs of the events recorded while the calls run.
ConcurrentPairs == {<<"u1", "Z">>, <<"u2", "Z">>}

\* The users the KNN calls are made for.
ConcurrentUsers == {"u1", "u2"}

InitConcurrentMatrix ==
    /\ reviews = ConcurrentReviews
    /\ user_interactions = [p \in Pairs |-> NoInteractions]
    /\ catalog = Books
    /\ docs = [b \in Books |-> {}]
    /\ favorites = {}
    /\ book_tags = [b \in Books |-> {}]
    /\ stats = [b \in Books |-> NoStats]
    /\ NewService
    /\ out = [op |-> "init"]

NextConcurrentMatrix ==
    \/ \E p \in ConcurrentPairs : RecordInteraction(p, 1)
    \/ \E user \in ConcurrentUsers : KnnAwaits(user, MaxK, MaxLimit)
    \/ SvdAwaits("u1", 2, MaxLimit)
    \/ \E c \in pending : KnnResumes(c)
    \/ \E c \in pending : SvdResumes(c)

SpecConcurrentMatrix == InitConcurrentMatrix /\ [][NextConcurrentMatrix]_vars

\* Hybrid calls and the events recorded while they wait.
NextConcurrentHybrid ==
    \/ \E p \in ConcurrentPairs : RecordInteraction(p, 1)
    \/ HybridAwaits("u1", MaxLimit)
    \/ \E c \in pending : HybridKnnResumes(c)
    \/ \E c \in pending : HybridSvdResumes(c)
    \/ \E c \in pending : HybridDetailsResume(c)

SpecConcurrentHybrid == InitConcurrentMatrix /\ [][NextConcurrentHybrid]_vars

----------------------------------------------------------------------------
(* Claims about the interaction matrix, checked under SpecMatrix *)

Cell(p) == user_item_matrix[p[1]][p[2]]

\* C1 (as claimed): right after a build, every (user, book) pair that has a
\* rating r and at least one implicit event, of total weight w, has the
\* cell r + w, whatever order the rows came in.
C1_RatedCellIsRatingPlusWeight ==
    out.op = "build" =>
        \A p \in Pairs :
            (HasReview(p) /\ HasInteraction(p)) =>
                /\ p \in Cells(user_item_matrix)
                /\ Cell(p) = reviews[p] + SumWeight(p)

\* C3: right after a build, the cells of the matrix are exactly the pairs
\* with at least one review or interaction row, every cell is nonzero, no
\* user has an empty row, and user_ids / book_ids are exactly the users /
\* books with at least one row; nothing of the previous build is left.
C3_CellsAreExactlyThePairsWithEvents ==
    out.op = "build" =>
        /\ Cells(user_item_matrix) = {p \in Pairs : HasEvent(p)}
        /\ \A p \in Cells(user_item_matrix) : Cell(p) # 0
        /\ DOMAIN user_item_matrix = {p[1] : p \in {q \in Pairs : HasEvent(q)}}
        /\ \A u \in DOMAIN user_item_matrix : DOMAIN user_item_matrix[u] # {}
        /\ user_ids = {p[1] : p \in {q \in Pairs : HasEvent(q)}}
        /\ book_ids = {p[2] : p \in {q \in Pairs : HasEvent(q)}}

\* C3 witness: a rebuild after which a cell of the previous build is gone
\* (its review was deleted) while another pair still has its cell.
C3_Witness_RebuildDroppedACell ==
    /\ out.op = "build"
    /\ out.dropped # {}
    /\ Cells(user_item_matrix) # {}

----------------------------------------------------------------------------
(* Claims about the KNN scorer, checked under SpecKnn *)

Min(a, b) == IF a < b THEN a ELSE b

Elems(xs) == {xs[i] : i \in DOMAIN xs}
NoRepeats(xs) == \A i, j \in DOMAIN xs : i # j => xs[i] # xs[j]
NonIncreasing(xs, key) ==
    \A i, j \in DOMAIN xs : i < j => xs[i][key] >= xs[j][key]

NeighborIds == {out.knn.neighbors[i].userId : i \in DOMAIN out.knn.neighbors}
ReturnedBooks == {out.knn.ret[i].bookId : i \in DOMAIN out.knn.ret}

NotConstant(ratings, C) == \E b, c \in C : ratings[b] # ratings[c]

\* Sum over all pairs of common items of the products of the two users'
\* score differences: positive iff the Pearson correlation is positive.
Covariation(target, other) ==
    LET C == (DOMAIN target) \cap (DOMAIN other)
    IN  SumOver(C \X C, [bc \in C \X C |->
            (target[bc[1]] - target[bc[2]]) * (other[bc[1]] - other[bc[2]])])

\* The users the claim admits as neighbours of `user`.
Admissible(m, user) ==
    { o \in (DOMAIN m) \ {user} :
        LET C == (DOMAIN m[user]) \cap (DOMAIN m[o])
        IN  /\ Cardinality(C) >= 2
            /\ NotConstant(m[user], C)
            /\ NotConstant(m[o], C)
            /\ Covariation(m[user], m[o]) > 0 }

Raters(b) ==
    {i \in DOMAIN out.knn.neighbors :
        b \in DOMAIN user_item_matrix[out.knn.neighbors[i].userId]}

WeightedSum(b) ==
    SumOver(Raters(b), [i \in Raters(b) |->
        user_item_matrix[out.knn.neighbors[i].userId][b]
            * out.knn.neighbors[i].similarity])

SimilaritySum(b) ==
    SumOver(Raters(b), [i \in Raters(b) |-> out.knn.neighbors[i].similarity])

\* The table of the spec's end-to-end scenario: two users rate W = 5 and
\* X = 3, one of them also rates Y = 5.
ScenarioReviews ==
    [p \in Pairs |->
        CASE p = <<"u2", "W">> -> 5
          [] p = <<"u2", "X">> -> 3
          [] p = <<"u3", "W">> -> 5
          [] p = <<"u3", "X">> -> 3
          [] p = <<"u3", "Y">> -> 5
          [] OTHER -> NoRating]

\* C5: every predicted rating returned is the quotient (rounded down to
\* 1/Scale) of the sum of score x similarity by the sum of similarity
\* over the neighbours that scored the item; in the scenario the one
\* prediction for u2 is item Y with rating 5.
C5_PredictionIsSimilarityWeightedMean ==
    out.op = "knn" =>
        /\ \A i \in DOMAIN out.knn.ret :
               LET rec == out.knn.ret[i]
               IN  /\ SimilaritySum(rec.bookId) > 0
                   /\ rec.predictedRating * SimilaritySum(rec.bookId)
                          <= WeightedSum(rec.bookId) * Scale
                   /\ WeightedSum(rec.bookId) * Scale
                          < (rec.predictedRating + 1) * SimilaritySum(rec.bookId)
        /\ (reviews = ScenarioReviews /\ out.user = "u2" /\ out.limit >= 1) =>
               out.knn.ret = <<[bookId |-> "Y", predictedRating |-> 5 * Scale]>>

\* C5 witness: the scenario, with the prediction made.
C5_Witness_Scenario ==
    /\ out.op = "knn"
    /\ reviews = ScenarioReviews
    /\ out.user = "u2"
    /\ out.knn.neighbors = <<[userId |-> "u3", similarity |-> Scale]>>
    /\ Len(out.knn.ret) = 1

\* The items some selected neighbour has scored and the target has not.
Candidates ==
    { b \in Books :
        /\ b \notin DOMAIN user_item_matrix[out.user]
        /\ Raters(b) # {} }

\* C6: a KNN result holds no item the target has a matrix entry for, no
\* item twice, is in non-increasing order of predicted rating, and holds
\* min(limit, number of candidates) of the candidates (the items scored
\* by a selected neighbour and not by the target).
C6_ResultIsUnseenSortedTruncated ==
    (out.op = "knn" /\ out.user \in DOMAIN user_item_matrix) =>
        /\ ReturnedBooks \cap DOMAIN user_item_matrix[out.user] = {}
        /\ ReturnedBooks \subseteq Candidates
        /\ NoRepeats([i \in DOMAIN out.knn.ret |-> out.knn.ret[i].bookId])
        /\ NonIncreasing(out.knn.ret, "predictedRating")
        /\ Len(out.knn.ret) = Min(out.limit, Cardinality(Candidates))

\* C6 witness: two candidates and limit 1, so that one is cut.
C6_Witness_CandidateCutByLimit ==
    /\ out.op = "knn"
    /\ out.user \in DOMAIN user_item_matrix
    /\ out.limit = 1
    /\ Len(out.knn.ret) = 1
    /\ Cardinality(Candidates) = 2

\* Users with the same score on every common item, at least 2 of them.
Identical(m, user, o) ==
    LET C == (DOMAIN m[user]) \cap (DOMAIN m[o])
    IN  /\ Cardinality(C) >= 2
        /\ \A b \in C : m[user][b] = m[o][b]

\* o is selected with similarity 1.0, or k users of similarity 1.0 are.
SelectedAsIdentical(o) ==
    \/ \E i \in DOMAIN out.knn.neighbors :
           out.knn.neighbors[i] = [userId |-> o, similarity |-> Scale]
    \/ /\ Len(out.knn.neighbors) = out.k
       /\ \A i \in DOMAIN out.knn.neighbors :
              out.knn.neighbors[i].similarity = Scale

----------------------------------------------------------------------------
(* Claims about the content index, checked under SpecContent *)

\* The seed has a row of its own in the index the call worked on.
IndexedSeed ==
    /\ initialized
    /\ Len(books) = Len(tfidf_matrix)
    /\ out.seed \in DOMAIN book_vectors
    /\ book_vectors[out.seed] \in DOMAIN books
    /\ books[book_vectors[out.seed]] = out.seed

\* C2 (as claimed): the list returned for an indexed seed never holds the
\* seed itself, whatever the limit, also when another item has the same
\* document as the seed or when the seed's vector is all zeros.
C2_SimilarItemsNeverHoldTheSeed ==
    (out.op = "content" /\ IndexedSeed /\ ~out.content.raised)
        => \A i \in DOMAIN out.content.ret : out.content.ret[i].bookId # out.seed

----------------------------------------------------------------------------
(* Claims about the popularity ranker, checked under SpecPopular *)

PopularityKey(b) == <<stats[b].avg, stats[b].reviews, stats[b].views>>

\* Key k1 sorts at or before key k2: larger average first, then larger
\* review count, then larger view count.
AtOrBefore(k1, k2) ==
    \/ k1[1] > k2[1]
    \/ k1[1] = k2[1] /\ k1[2] > k2[2]
    \/ k1[1] = k2[1] /\ k1[2] = k2[2] /\ k1[3] >= k2[3]

\* C10: the popularity ranker returns min(limit, size of the catalog) distinct
\* catalog items, ordered by average rating descending, then review count
\* descending, then view count descending, and no omitted item sorts strictly
\* before a returned one; the list is produced in every state, whatever the
\* reviews and interactions (none included).
C10_PopularIsTopLimitByRatingReviewsViews ==
    out.op = "popular" =>
        /\ Len(out.ret) = Min(out.limit, Cardinality(catalog))
        /\ Elems(out.ret) \subseteq catalog
        /\ NoRepeats(out.ret)
        /\ \A i, j \in DOMAIN out.ret :
               i < j => AtOrBefore(PopularityKey(out.ret[i]), PopularityKey(out.ret[j]))
        /\ \A b \in catalog \ Elems(out.ret), i \in DOMAIN out.ret :
               AtOrBefore(PopularityKey(out.ret[i]), PopularityKey(b))

\* C10 witness: with no review and no interaction in the tables, two books
\* equal in average rating and review count come back ordered by their view
\* counts, and a third book is cut by the limit.
C10_Witness_ViewsBreakTheTie ==
    /\ out.op = "popular"
    /\ \A p \in Pairs : ~HasEvent(p)
    /\ Len(out.ret) = 2
    /\ Cardinality(catalog) = 3
    /\ stats[out.ret[1]].avg = stats[out.ret[2]].avg
    /\ stats[out.ret[1]].avg > 0
    /\ stats[out.ret[1]].reviews = stats[out.ret[2]].reviews
    /\ stats[out.ret[1]].views > stats[out.ret[2]].views

----------------------------------------------------------------------------
(* Claims about the hybrid ranker, checked under SpecHybrid *)

\* The value a scorer's list gives for book b, 0 when b is not in the list.
ValueIn(recs, field, b) ==
    IF \E i \in DOMAIN recs : recs[i].bookId = b
    THEN recs[CHOOSE i \in DOMAIN recs : recs[i].bookId = b][field]
    ELSE 0

IdsOf(recs) == {recs[i].bookId : i \in DOMAIN recs}

\* The items some scorer of the request scored.
Scored == IdsOf(out.content) \cup IdsOf(out.knn) \cup IdsOf(out.svd)

\* 0.3 x similarity + 0.4 x (KNN rating / 5) + 0.3 x (latent-factor rating / 5)
\* in units of 1 / (50 x Scale).
Blend(b) ==
    15 * ValueIn(out.content, "similarity", b)
        + 4 * ValueIn(out.knn, "predictedRating", b)
        + 3 * ValueIn(out.svd, "predictedRating", b)

\* T is a choice of the `limit` highest blended scores.
TopChoice(T) ==
    /\ Cardinality(T) = Min(out.limit, Cardinality(Scored))
    /\ \A b \in T, c \in Scored \ T : Blend(b) >= Blend(c)

\* The part of C8 the counterexample leaves alone: each scorer contributes
\* at most 2 x limit items, the content scorer only with a seed; every item
\* returned carries its blended score; scores are non-increasing and no item
\* is repeated.
BlendedAndOrdered ==
    /\ Len(out.content) <= 2 * out.limit
    /\ Len(out.knn) <= 2 * out.limit
    /\ Len(out.svd) <= 2 * out.limit
    /\ out.seed = NoSeed => out.content = <<>>
    /\ \A i \in DOMAIN out.ret :
           /\ out.ret[i].bookId \in Scored
           /\ out.ret[i].score = Blend(out.ret[i].bookId)
    /\ NonIncreasing(out.ret, "score")
    /\ NoRepeats([i \in DOMAIN out.ret |-> out.ret[i].bookId])

\* C8 (as claimed): every returned item carries 0.3 x content similarity
\* + 0.4 x KNN rating / 5 + 0.3 x latent-factor rating / 5 over the scorers
\* that listed it, and the output holds the `limit` highest blended scores in
\* non-increasing order without repetition.
C8_OutputIsTheLimitHighestBlends ==
    out.op = "hybrid" =>
        /\ BlendedAndOrdered
        /\ TopChoice(IdsOf(out.ret))

\* C8 (amended): as claimed, except that the output holds those of the
\* `limit` highest blended scores whose item the catalog still has: an item
\* of the content index that was deleted since the index was built takes a
\* place among the `limit` highest and is dropped after the truncation.
C8_OutputIsTheLimitHighestBlendsStillInCatalog ==
    out.op = "hybrid" =>
        /\ BlendedAndOrdered
        /\ \E T \in SUBSET Scored :
               TopChoice(T) /\ IdsOf(out.ret) = T \cap catalog

\* C8 witness: an item scored by all three scorers is returned, next to
\* another item, while a scored item is cut by the limit.
C8_Witness_ThreeSourcesBlended ==
    /\ out.op = "hybrid"
    /\ Len(out.ret) = 2
    /\ Cardinality(Scored) > 2
    /\ \E b \in IdsOf(out.ret) :
           b \in IdsOf(out.content) /\ b \in IdsOf(out.knn) /\ b \in IdsOf(out.svd)

\* C9 (as claimed): when the three scorers all return nothing, the answer of
\* the hybrid route is the popularity fallback: the top `limit` books by
\* average rating, then review count, then view count.
C9_EmptyHybridAnswersWithPopularBooks ==
    (/\ out.op = "hybrid"
     /\ ~out.raised
     /\ out.content = <<>> /\ out.knn = <<>> /\ out.svd = <<>>)
        => \E p \in PopularOrders :
               [i \in DOMAIN out.response |-> out.response[i].bookId]
                   = Truncate(p, out.limit)

----------------------------------------------------------------------------
(* Claims about failing scorers, checked under SpecHybrid *)

\* The KNN scorer has something to return for the user and the limit of the
\* request, on the tables as they are.
KnnWouldFind ==
    LET m == FillMatrix(AsSeq(QueryResult), EmptyMap)
    IN  \E uorder \in UserOrders(DOMAIN m, out.user), border \in ItemOrders(m, out.user) :
            KnnResult(m, out.user, HybridK, 2 * out.limit, uorder, border).ret # <<>>

C12_LaterScorersStillContribute ==
    (out.op = "hybrid" /\ out.failed = "content" /\ KnnWouldFind)
        => out.knn # <<>>

----------------------------------------------------------------------------
(* Claims about rebuilds of the content index, checked under SpecContent *)

\* C13 (as claimed): when the most recent initialize read an empty catalog
\* (self.books is empty after it), also after an earlier build of a
\* non-empty index, the index is marked uninitialized and every query
\* returns the empty list without raising.
C13_EmptyCatalogLeavesIndexUninitialized ==
    (out.op \in {"initialize", "content"} /\ books = <<>>) =>
        /\ ~initialized
        /\ out.op = "content" => ~out.content.raised /\ out.content.ret = <<>>

\* C14 (as claimed): a query for an item that was not in the catalog the most
\* recent initialize read returns the empty list and does not raise, also
\* for an item an earlier initialize had indexed and that was deleted before
\* the rebuild.
C14_ItemsOutsideTheSnapshotGiveNothing ==
    (out.op = "content" /\ out.seed \notin Elems(books)) =>
        ~out.content.raised /\ out.content.ret = <<>>

\* The similarity of indexed book b to the seed of the query.
SeedSimilarity(b) ==
    CosineSimilarity(tfidf_matrix, book_vectors[out.seed], Position(books, b))

\* The other indexed items whose similarity to the seed is positive.
SimilarOthers == {b \in Elems(books) \ {out.seed} : SeedSimilarity(b) > 0}

\* C17 (as claimed): for an indexed seed the query returns exactly the first
\* `limit` entries of the list of the other items of positive similarity,
\* sorted by similarity descending: only such items, each with its
\* similarity, in non-increasing order, min(limit, their number) of them,
\* and none left out that is more similar than one returned.
C17_QueryReturnsTheTopSimilarOthers ==
    (out.op = "content" /\ IndexedSeed /\ ~out.content.raised) =>
        /\ \A i \in DOMAIN out.content.ret :
               /\ out.content.ret[i].bookId \in SimilarOthers
               /\ out.content.ret[i].similarity = SeedSimilarity(out.content.ret[i].bookId)
        /\ NonIncreasing(out.content.ret, "similarity")
        /\ Len(out.content.ret) = Min(out.limit, Cardinality(SimilarOthers))
        /\ \A b \in SimilarOthers \ IdsOf(out.content.ret), i \in DOMAIN out.content.ret :
               out.content.ret[i].similarity >= SeedSimilarity(b)

----------------------------------------------------------------------------
(* Claims about the latent-factor scorer, checked under SpecSvd *)

\* C15: a call on a matrix of fewer than 2 users or fewer than 2 items, or
\* for a user without a row, returns the empty list and does not raise.
C15_SmallMatrixGivesEmptyWithoutRaising ==
    (/\ out.op = "svd"
     /\ \/ Cardinality(user_ids) < 2
        \/ Cardinality(book_ids) < 2
        \/ out.user \notin DOMAIN user_item_matrix)
    => /\ ~out.svd.raised
       /\ out.svd.ret = <<>>

\* C16: the call returns predictions only for items of the matrix without an
\* entry in the target's row, each at most once, in non-increasing order of
\* predicted score, and as many of them as there are, up to `limit`.
C16_PredictionsAreUnseenSortedAndTruncated ==
    (out.op = "svd" /\ ~out.svd.raised)
    => /\ IdsOf(out.svd.ret) \subseteq Unseen(user_item_matrix, out.user)
       /\ IdsOf(out.svd.ret) \subseteq book_ids
       /\ NoRepeats([i \in DOMAIN out.svd.ret |-> out.svd.ret[i].bookId])
       /\ NonIncreasing(out.svd.ret, "predictedRating")
       /\ Len(out.svd.ret) <= out.limit
       /\ (out.user \in DOMAIN user_item_matrix /\ Cardinality(user_ids) >= 2)
          => Len(out.svd.ret)
               = Min(out.limit, Cardinality(Unseen(user_item_matrix, out.user)))

\* Two unseen items with different predictions and a limit of one: the item
\* of the higher prediction is the one returned.
C16_Witness_TruncatedToTheHigherPrediction ==
    /\ out.op = "svd"
    /\ ~out.svd.raised
    /\ out.limit = 1
    /\ Len(out.svd.ret) = 1
    /\ Cardinality(Unseen(user_item_matrix, out.user)) = 2
    /\ out.svd.ret[1].predictedRating > 3 * Scale

----------------------------------------------------------------------------
(* Claims about the merge rule of the matrix, checked under SpecMatrix *)

RatingOnly(p) == HasReview(p) /\ ~HasInteraction(p)
ImplicitOnly(p) == HasInteraction(p) /\ ~HasReview(p)

\* Right after a build: the cell of a pair with a rating and no event is the
\* rating, the cell of a pair with events and no rating is 3 plus the sum of
\* the weights of its events.
MergedCells ==
    out.op = "build" =>
        \A p \in Pairs :
            /\ RatingOnly(p) => p \in Cells(user_item_matrix) /\ Cell(p) = reviews[p]
            /\ ImplicitOnly(p) => /\ p \in Cells(user_item_matrix)
                                  /\ Cell(p) = NeutralBase + SumWeight(p)

\* A step that, right after a build, records one more event of weight w for
\* a pair with events and no rating: whatever order the rows come in, the
\* next build gives the pair its cell of the last build plus w.
OneMoreEventAddsItsWeight ==
    \A p \in Pairs, w \in Weights :
        (/\ out.op = "build"
         /\ ImplicitOnly(p)
         /\ reviews' = reviews
         /\ user_interactions' = [user_interactions EXCEPT ![p][w] = @ + 1])
        => \A rows \in RowOrders(QueryResult)' :
               BuiltMatrix(rows, user_item_matrix)[p[1]][p[2]] = Cell(p) + w

\* C18: a pair with only a rating r has the cell r; a pair with only
\* implicit events has the cell 3 + the sum of its event weights, so one
\* more event of weight w raises its cell in the next build by exactly w.
C18_RatingAloneOrBasePlusWeights ==
    []MergedCells /\ [][OneMoreEventAddsItsWeight]_vars

\* A build that finds a pair with two events and no rating, one of them of
\* weight 1, next to a pair with a rating and no event.
C18_Witness_TwoEventsOnTheNeutralBase ==
    /\ out.op = "build"
    /\ \E p \in Pairs :
           /\ ImplicitOnly(p)
           /\ InteractionCount(p) = 2
           /\ Cell(p) = NeutralBase + 1
    /\ \E q \in Pairs : RatingOnly(q) /\ Cell(q) = reviews[q]

----------------------------------------------------------------------------
(* Claims about the personalized ranker, checked under SpecPersonalized *)

Favorited(user, b) == \E f \in favorites : f.user_id = user /\ f.book_id = b

\* The catalog items that share a tag of T and that the user has not
\* interacted with, reviewed or favorited.
Eligible(user, T) ==
    { b \in catalog :
        /\ book_tags[b] \cap T # {}
        /\ ~HasInteraction(<<user, b>>)
        /\ ~HasReview(<<user, b>>)
        /\ ~Favorited(user, b) }

SharedTags(b, T) == Cardinality(book_tags[b] \cap T)

\* b comes no later than c by (shared tags descending, average rating
\* descending).
RankedNoLater(b, c, T) ==
    \/ SharedTags(b, T) > SharedTags(c, T)
    \/ SharedTags(b, T) = SharedTags(c, T) /\ stats[b].avg >= stats[c].avg

\* C19: for a user with tag preferences the request returns, for some
\* choice T of the user's 5 tags of highest summed interaction weight, only
\* items that share a tag of T and that the user has not interacted with,
\* reviewed or favorited, none twice, ordered by shared tags descending then
\* average rating descending, min(limit, number of such items) of them and
\* none that an omitted one outranks.
C19_PersonalizedReturnsUnseenSharersInOrder ==
    (out.op = "personalized" /\ PreferenceTags(out.user) # {})
    => \E T \in SUBSET PreferenceTags(out.user) :
         /\ Cardinality(T) = Min(TopTags, Cardinality(PreferenceTags(out.user)))
         /\ \A t \in T, s \in PreferenceTags(out.user) \ T :
                PreferenceScore(out.user, t) >= PreferenceScore(out.user, s)
         /\ Elems(out.ret) \subseteq Eligible(out.user, T)
         /\ NoRepeats(out.ret)
         /\ \A i, j \in DOMAIN out.ret :
                i < j => RankedNoLater(out.ret[i], out.ret[j], T)
         /\ Len(out.ret) = Min(out.limit, Cardinality(Eligible(out.user, T)))
         /\ \A b \in Elems(out.ret), c \in Eligible(out.user, T) \ Elems(out.ret) :
                RankedNoLater(b, c, T)

\* Six preferred tags of which the query keeps five: Y, whose only tag is
\* the one cut, is not returned although the limit leaves room for it.
C19_Witness_SixthTagIsCut ==
    /\ out.op = "personalized"
    /\ Cardinality(PreferenceTags(out.user)) > TopTags
    /\ out.limit = 2
    /\ out.ret = <<"Z">>
    /\ ~HasEvent(<<out.user, "Y">>)
    /\ ~Favorited(out.user, "Y")

\* C20 (as claimed): the request answers with the popular books when the
\* user has no tag preference and when no unseen catalog item shares a
\* preferred tag, and it returns the empty list only when the popularity
\* ranker has nothing to return.
C20_BothColdStartsFallBackToPopular ==
    out.op = "personalized" =>
        /\ (\/ PreferenceTags(out.user) = {}
            \/ Eligible(out.user, out.preferred) = {})
           => \E p \in PopularOrders : out.ret = Truncate(p, out.limit)
        /\ out.ret = <<>> => (catalog = {} \/ out.limit = 0)

----------------------------------------------------------------------------
(* Claims about two builds of the content index over the same data,       *)
(* checked under SpecContent                                              *)

\* The index is the one a completed build over the present catalog gives.
BuiltOverCatalog ==
    /\ initialized
    /\ books # <<>>
    /\ NoRepeats(books)
    /\ Elems(books) = catalog
    /\ tfidf_matrix = [i \in DOMAIN books |-> docs[books[i]]]
    /\ \A i \in DOMAIN books : book_vectors[books[i]] = i

\* The similarities line 99 computes for seed x on the index of this state.
SimilarityArray(x) == CosineRow(tfidf_matrix, book_vectors[x])

\* A step that calls initialize() right after a call of initialize() that
\* built the index, nothing written in between: every query whose array of
\* similarities is the same on both indexes (argsort then returns the same
\* permutation) returns the same list on both.
SecondBuildKeepsRankings ==
    (/\ out.op = "initialize"
     /\ out'.op = "initialize"
     /\ BuiltOverCatalog
     /\ UNCHANGED dbVars)
    => \A x \in catalog, limit \in 0..MaxLimit :
           SimilarityArray(x) = SimilarityArray(x)'
           => \A perm \in ArgSorts(SimilarityArray(x)) :
                  ContentBased(Tfidf, x, limit, perm)
                      = ContentBased(Tfidf', x, limit, perm)

\* C21 (as claimed): calling initialize() twice with unchanged catalog data
\* leaves an index on which every query returns the list it returned after
\* the first call.
C21_RebuildOverSameDataKeepsRankings == [][SecondBuildKeepsRankings]_vars

----------------------------------------------------------------------------
(* Claims about the order of a content answer, checked under SpecContent *)

\* The indexed document of book b shares a term with that of the seed.
SharesATerm(b) ==
    tfidf_matrix[Position(books, b)] \cap tfidf_matrix[book_vectors[out.seed]] # {}

ReturnedAt(i) == out.content.ret[i].bookId

C28_TiesComeInRowOrder ==
    (out.op = "content" /\ ~out.content.raised /\ IndexedSeed)
    => \A i, j \in DOMAIN out.content.ret :
           (/\ i < j
            /\ out.content.ret[i].similarity = out.content.ret[j].similarity)
           => Position(books, ReturnedAt(i)) < Position(books, ReturnedAt(j))

\* The vectorizer finds no term in the documents of the catalog:
\* fit_transform raises after lines 46-64 have run.
FitRaises == catalog # {} /\ \A b \in catalog : docs[b] = {}

\* A step of initialize() on an index built earlier, in which the fit raises:
\* the item list, the map, the matrix and the flag keep their values.
FailedBuildChangesNothing ==
    (out'.op = "initialize" /\ initialized /\ FitRaises /\ UNCHANGED dbVars)
    => UNCHANGED tfVars

\* C24 (as claimed): an initialize() that fails after it has read the catalog
\* leaves the index built before it entirely unchanged.
C24_FailedBuildLeavesIndexUnchanged == [][FailedBuildChangesNothing]_vars

----------------------------------------------------------------------------
(* Claims about the seed of a hybrid request, checked under SpecHybrid *)

\* C29 (as claimed): the answer to a hybrid request for a seed item never
\* holds the seed item, whichever scorers contributed.
C29_HybridNeverReturnsTheSeed ==
    (out.op = "hybrid" /\ out.seed # NoSeed)
    => out.seed \notin IdsOf(out.ret)

----------------------------------------------------------------------------
(* Claims about limits of either sign, checked under SpecLimits *)

Returned ==
    IF out.op = "content" THEN out.content.ret
    ELSE IF out.op = "knn" THEN out.knn.ret
    ELSE IF out.op = "svd" THEN out.svd.ret
    ELSE IF out.op = "hybrid" THEN out.response
    ELSE <<>>

\* C30 (as claimed): a content, KNN, latent-factor or hybrid call returns at
\* most max(limit, 0) items, for a limit of either sign.
C30_AtMostLimitItemsForEveryLimit ==
    Len(Returned) <= (IF out.op = "init" \/ out.limit < 0 THEN 0 ELSE out.limit)

\* The index tf holds book b: the map names a row, the item list has b at
\* that row and the matrix has the document of b there.
IndexedIn(tf, b) ==
    /\ b \in DOMAIN tf.book_vectors
    /\ tf.book_vectors[b] \in DOMAIN tf.books
    /\ tf.books[tf.book_vectors[b]] = b
    /\ tf.book_vectors[b] \in DOMAIN tf.tfidf_matrix
    /\ tf.tfidf_matrix[tf.book_vectors[b]] = docs[b]

\* A book of the catalog that was added after the last successful build.
AddedAfterBuild(b) == initialized /\ b \in catalog /\ b \notin DOMAIN book_vectors

QueryBuildsFirst ==
    (out'.op = "content" /\ ~initialized)
        => \E order \in FetchOrders(catalog) : Tfidf' = InitializedTfidf(order)

QueryNeverRebuilds == (out'.op = "content" /\ initialized) => UNCHANGED tfVars

AddedItemYieldsNothing ==
    (out'.op = "content" /\ AddedAfterBuild(out'.seed)) => out'.content = NoContent

InitializeIndexesAddedItems ==
    (out'.op = "initialize" /\ UNCHANGED dbVars)
        => \A b \in catalog : AddedAfterBuild(b) => IndexedIn(Tfidf', b)

\* C27: a query on an uninitialized index builds it before answering; on an
\* initialized index a query never rebuilds, so a query for a book added
\* after the build returns the empty list; a call of initialize() indexes
\* every book added since the build.
C27_LazyBuildOnceAndReindexOnInitialize ==
    [][/\ QueryBuildsFirst
       /\ QueryNeverRebuilds
       /\ AddedItemYieldsNothing
       /\ InitializeIndexesAddedItems]_vars

\* The item list, the map and the matrix are those of one build: the map
\* names exactly the items of this list, each at its own row, and the matrix
\* has one row per item.
FromOneBuild ==
    /\ Len(tfidf_matrix) = Len(books)
    /\ DOMAIN book_vectors = {books[i] : i \in DOMAIN books}
    /\ \A i \in DOMAIN books : book_vectors[books[i]] = i

\* C22: while initialize() runs concurrently with queries, the item list,
\* the id-to-row map and the matrix a query reads all come from one
\* completed build.
C22_QueryReadsOneBuild == out.op = "content" => FromOneBuild

----------------------------------------------------------------------------
(* Claims about interleaving calls, checked under SpecConcurrentMatrix *)

\* The matrix one complete build makes of the rows a call fetched.
OwnMatrix(rows) == FillMatrix(rows, EmptyMap)

KnnFromOwnBuild(rows, user, k, limit, ret) ==
    \E uorder \in UserOrders(RowUsers(rows), user),
       border \in ItemOrders(OwnMatrix(rows), user) :
        ret = KnnResult(OwnMatrix(rows), user, k, limit, uorder, border).ret

SvdFromOwnBuild(rows, user, limit, profiles, ret) ==
    \E border \in ItemOrders(OwnMatrix(rows), user), predicted \in profiles :
        ret = SvdResult(OwnMatrix(rows), RowUsers(rows), user, limit,
                        predicted, border)

\* C25: with calls interleaving at the await of the build and events being
\* recorded, each KNN or latent-factor prediction is computed from the matrix
\* of one complete build of the rows its own call fetched: when the call
\* ends its scorer the shared matrix is exactly that matrix, with no cell of
\* another call's build, and the prediction is one this matrix gives.
C25_PredictionFromOneCompleteBuild ==
    /\ out.op = "knn" =>
           /\ user_item_matrix = OwnMatrix(out.rows)
           /\ KnnFromOwnBuild(out.rows, out.user, out.k, out.limit, out.knn.ret)
    /\ out.op = "svd" =>
           /\ user_item_matrix = OwnMatrix(out.rows)
           /\ SvdFromOwnBuild(out.rows, out.user, out.limit,
                              SvdProfilesFor(out.factors), out.svd.ret)

\* A KNN call ends with a recommendation after another call, whose rows had
\* an event more, rebuilt the shared matrix between the fetch and the resume
\* of this call: the matrix it found held a cell its own rows do not have.
C25_Witness_OlderRowsResumeAfterNewerBuild ==
    /\ out.op = "knn"
    /\ out.knn.ret # <<>>
    /\ Cells(out.found) \ Cells(OwnMatrix(out.rows)) # {}
    /\ {out.rows[i] : i \in DOMAIN out.rows} # QueryResult

\* C26: within one hybrid call the KNN part and the latent-factor part are
\* computed from the same snapshot of the events.
C26_HybridPartsShareOneSnapshot ==
    out.op = "hybrid" =>
        {out.knnRows[i] : i \in DOMAIN out.knnRows}
            = {out.svdRows[i] : i \in DOMAIN out.svdRows}

============================================================================
